---- MODULE Spec2Model ----
(***************************************************************************)
(* Conversation flow engine (backend/agent/flow_engine): the FlowEngine    *)
(* orchestrator, the NodeExecutor, FlowDefinition.validate and the part of *)
(* the DynamicVariableStore they use, as a state machine.                  *)
(*                                                                         *)
(* Python None is the string NoneVal; an Optional[str] text is a record    *)
(* [none, toks] whose toks are the pieces of the template ("{{x}}" is one  *)
(* piece); a dict is a function; a list is a sequence.                     *)
(***************************************************************************)
EXTENDS Integers, Sequences, FiniteSets, TLC

VARIABLES
    flow,               \* FlowEngine.flow: a FlowDefinition or NoFlow
    node_executor,      \* FlowEngine.node_executor is not None
    function_registry,  \* names registered in FlowEngine.function_registry
    vad_enabled,        \* FlowEngine.vad_enabled
    session,            \* the FlowState made by create_session, or NoSession
    pc,                 \* per caller: "idle", or "exec" while awaiting NodeExecutor.execute
    pending,            \* per caller: the node whose execution it awaits, and the user input
    last,               \* outcome of the latest operation or _handle_node_result step
    err_run,            \* length of the current run of consecutive error-kind results
    cascade,            \* nodes executed so far in the turn in progress (saturating)
    turns,              \* calls of start/process_input made so far
    vflow,              \* input of the validate check
    verrors,            \* output of the validate check
    tr,                 \* one call of _evaluate_transitions: its arguments and its result
    vad,                \* the VADProcessor: phase, buffer and counters
    vlog,               \* what the VADProcessor was fed and what it gave back
    heap,               \* dict objects by address, and the stores of two sessions
    hooks,              \* the observer hook calls of the latest start/process_input step
    agent,              \* Stage3VoiceAgent: playback, audio stream tasks and their frames
    machine             \* the legacy StateMachine and the ConversationContext it works on

vars == <<flow, node_executor, function_registry, vad_enabled, session, pc, pending, last,
          err_run, cascade, turns, vflow, verrors, tr, vad, vlog, heap, hooks, agent, machine>>

-----------------------------------------------------------------------------
(* Bounds of the model *)

MaxTurns == 4
MaxCascade == 4
MaxConcTurns == 2
MaxFairTurns == 2
MaxFrames == 14
MaxAudioFrames == 6
MaxArrivals == 6
MaxChunks == 2
MaxCreates == 3
MaxHistory == 2

-----------------------------------------------------------------------------
(* Values *)

NoneVal == "<None>"
NoFlow == [id |-> NoneVal]
NoSession == [flow_id |-> NoneVal]
NoneText == [none |-> TRUE, toks |-> <<>>]
Text(toks) == [none |-> FALSE, toks |-> toks]

\* truthiness of an Optional[str], as in `if result.response_text:`
Truthy(t) == ~t.none /\ \E i \in DOMAIN t.toks : t.toks[i] # ""

\* truthiness of an Optional[str] id, as in `if self.start_node_id`
TruthyId(s) == s # NoneVal /\ s # ""

VarOfToken == [tok \in {"{{name}}", "{{result}}"} |->
                 IF tok = "{{name}}" THEN "name" ELSE "result"]

\* DynamicVariableStore.exists
exists(variables, name) ==
    name \in DOMAIN variables /\ variables[name] # NoneVal

\* DynamicVariableStore.interpolate: every {{name}} whose variable has a
\* non-None value is replaced by the value, the rest is kept verbatim.
interpolate(variables, t) ==
    IF ~Truthy(t) THEN t
    ELSE Text([i \in DOMAIN t.toks |->
                 IF /\ t.toks[i] \in DOMAIN VarOfToken
                    /\ exists(variables, VarOfToken[t.toks[i]])
                 THEN variables[VarOfToken[t.toks[i]]]
                 ELSE t.toks[i]])

\* DynamicVariableStore.set on the variable mapping
store_set(variables, name, value) ==
    [n \in DOMAIN variables \cup {name} |->
        IF n = name THEN value ELSE variables[n]]

\* A string is a sequence of tokens: " " is one blank, the words OR, AND, NOT,
\* CONTAINS, exists, not, the operators and the quotes are one token each.

\* `pat in s` and s.split(pat, 1): where pat first occurs in s, 0 if nowhere
find(s, pat) ==
    LET at == { i \in 1..(Len(s) - Len(pat) + 1) : SubSeq(s, i, i + Len(pat) - 1) = pat }
    IN IF at = {} THEN 0 ELSE CHOOSE i \in at : \A j \in at : i <= j

\* str.strip()
strip(s) ==
    LET ink == { i \in DOMAIN s : s[i] # " " }
    IN IF ink = {} THEN <<>>
       ELSE SubSeq(s, CHOOSE i \in ink : \A j \in ink : i <= j,
                      CHOOSE i \in ink : \A j \in ink : i >= j)

\* DynamicVariableStore._parse_value on text that is no number and no boolean
parse_value(s) ==
    LET unquote(v) ==
            IF /\ v # <<>>
               /\ \/ v[1] = "\"" /\ v[Len(v)] = "\""
                  \/ v[1] = "'" /\ v[Len(v)] = "'"
            THEN SubSeq(v, 2, Len(v) - 1) ELSE v
    IN unquote(strip(s))

\* DynamicVariableStore._interpolate_for_eval: {{v}} becomes the quoted value
\* of v, or "" when v has none
RECURSIVE interpolate_for_eval(_, _)
interpolate_for_eval(variables, s) ==
    IF s = <<>> THEN <<>>
    ELSE (IF Head(s) \in DOMAIN VarOfToken
          THEN IF exists(variables, VarOfToken[Head(s)])
               THEN <<"\"", variables[VarOfToken[Head(s)]], "\"">>
               ELSE <<"\"", "\"">>
          ELSE <<Head(s)>>) \o interpolate_for_eval(variables, Tail(s))

\* DynamicVariableStore.evaluate_equation. Of the operators of comparison_ops (lines
\* 182-191) the four order operators are left out; the others keep their order.
RECURSIVE evaluate_equation(_, _)
evaluate_equation(variables, eq) ==
    LET ops == <<  <<"!=">>, <<"==">>, <<"CONTAINS">>, <<"NOT", " ", "CONTAINS">>  >>
        \* the first operator of the list that occurs in text, 0 if none does
        scan(text) ==
            IF \A k \in DOMAIN ops : find(text, ops[k]) = 0 THEN 0
            ELSE CHOOSE k \in DOMAIN ops :
                    /\ find(text, ops[k]) > 0
                    /\ \A j \in 1..(k - 1) : find(text, ops[j]) = 0
        op_func(k, left, right) ==
            CASE k = 1 -> left # right
              [] k = 2 -> left = right
              [] k = 3 -> find(left, right) > 0
              [] k = 4 -> ~(find(left, right) > 0)
        \* interpolated.split(op_str, 1) and the comparison of the two parts
        split(text, op, k, at) ==
            op_func(k, parse_value(SubSeq(text, 1, at - 1)),
                       parse_value(SubSeq(text, at + Len(op), Len(text))))
        compare(text, k) ==
            IF k = 0 THEN parse_value(text) # <<>>
            ELSE split(text, ops[k], k, find(text, ops[k]))
        \* word: what follows the first token and the blank after it
        simple(e, word) ==
            IF e # <<>> /\ e[1] \in DOMAIN VarOfToken /\ word # <<>> /\ word[1] = "exists"
            THEN exists(variables, VarOfToken[e[1]])
            ELSE IF /\ e # <<>> /\ e[1] \in DOMAIN VarOfToken
                    /\ \/ Len(word) >= 3 /\ SubSeq(word, 1, 3) = <<"not", " ", "exists">>
                       \/ word # <<>> /\ word[1] = "not_exists"
            THEN ~exists(variables, VarOfToken[e[1]])
            ELSE compare(interpolate_for_eval(variables, e),
                         scan(interpolate_for_eval(variables, e)))
        logic(e, or, and) ==
            IF or > 0
            THEN \/ evaluate_equation(variables, SubSeq(e, 1, or - 1))
                 \/ evaluate_equation(variables, SubSeq(e, or + 3, Len(e)))
            ELSE IF and > 0
            THEN /\ evaluate_equation(variables, SubSeq(e, 1, and - 1))
                 /\ evaluate_equation(variables, SubSeq(e, and + 3, Len(e)))
            ELSE simple(e, IF Len(e) >= 3 /\ e[2] = " "
                           THEN strip(SubSeq(e, 3, Len(e))) ELSE <<>>)
        stripped(e) == logic(e, find(e, <<" ", "OR", " ">>), find(e, <<" ", "AND", " ">>))
    IN IF eq = <<>> THEN TRUE ELSE stripped(strip(eq))

-----------------------------------------------------------------------------
(* Flow documents (schema.py) *)

Cond(type, condition) == [type |-> type, condition |-> condition]

Edge(id, target, conditions, is_default, priority) ==
    [id |-> id, target_node_id |-> target, conditions |-> conditions,
     is_default |-> is_default, priority |-> priority]

Node(type, edges) ==
    [type |-> type, edges |-> edges,
     auto_respond |-> TRUE, extract_variables |-> {},
     instruction |-> Text(<<"Help the user">>),
     response_template |-> Text(<<"Hello">>),
     function_name |-> "", result_variable |-> NoneVal,
     pending_message |-> NoneText, success_message |-> NoneText,
     failure_message |-> NoneText,
     message |-> Text(<<"Goodbye">>), end_reason |-> "completed"]

ConversationNode(edges, extract, auto) ==
    [Node("conversation", edges) EXCEPT
        !.extract_variables = extract, !.auto_respond = auto]

FunctionNode(edges, fname, resvar, success, failure) ==
    [Node("function", edges) EXCEPT
        !.function_name = fname, !.result_variable = resvar,
        !.success_message = success, !.failure_message = failure]

LogicSplitNode(edges) == Node("logic_split", edges)

EndNode(message, reason) ==
    [Node("end", <<>>) EXCEPT !.message = message, !.end_reason = reason]

TransferNode(message) ==
    [Node("transfer", <<>>) EXCEPT !.message = message]

ExtractVariableNode(edges, names) ==
    [Node("extract_variable", edges) EXCEPT !.extract_variables = names]

FlowDefinition(id, start, fallback, max_retries, nodes) ==
    [id |-> id, start_node_id |-> start, fallback_node_id |-> fallback,
     max_retries |-> max_retries, nodes |-> nodes]

NameExists == Cond("equation", <<"{{name}}", " ", "exists">>)
WantsToLeave == Cond("prompt", "the user wants to stop")

\* an appointment flow: greet -> book -> bye, with a fallback node
BookingNodes ==
    [n \in {"greet", "book", "bye", "fb"} |->
        CASE n = "greet" ->
               ConversationNode(
                 <<Edge("e1", "bye", <<WantsToLeave>>, FALSE, 1),
                   Edge("e0", "book", <<NameExists>>, FALSE, 0)>>,
                 {"name"}, TRUE)
          [] n = "book" ->
               FunctionNode(<<Edge("e2", "bye", <<>>, TRUE, 0)>>,
                            "create_calendar_event", "booking",
                            Text(<<"Booked ", "{{result}}">>), NoneText)
          [] n = "bye" -> EndNode(Text(<<"Goodbye ", "{{name}}">>), "completed")
          [] OTHER ->
               ConversationNode(
                 <<Edge("e3", "greet", <<WantsToLeave>>, FALSE, 0)>>, {}, TRUE)]

\* two LogicSplit nodes joined by default edges, after an ExtractVariable node
CycleNodes ==
    [n \in {"ask", "s1", "s2", "out"} |->
        CASE n = "ask" ->
               ExtractVariableNode(
                 <<Edge("c0", "s1", <<>>, TRUE, 0)>>, {"name"})
          [] n = "s1" ->
               LogicSplitNode(
                 <<Edge("c1", "s2", <<>>, TRUE, 5),
                   Edge("c2", "out", <<NameExists>>, FALSE, 9)>>)
          [] n = "s2" -> LogicSplitNode(<<Edge("c3", "s1", <<>>, TRUE, 0)>>)
          [] OTHER -> TransferNode(Text(<<"Connecting you">>))]

\* an edge to a node that is not in the document
DanglingNodes ==
    [n \in {"greet", "bye"} |->
        IF n = "greet"
        THEN ConversationNode(
               <<Edge("d0", "ghost", <<>>, TRUE, 0)>>, {}, TRUE)
        ELSE EndNode(Text(<<"">>), "completed")]

Docs ==
    { FlowDefinition("booking", "greet", "fb", 2, BookingNodes),
      FlowDefinition("nofallback", "book", NoneVal, 1, BookingNodes),
      FlowDefinition("cycle", "ask", NoneVal, 3, CycleNodes),
      FlowDefinition("dangling", "greet", NoneVal, 3, DanglingNodes),
      FlowDefinition("nostart", "", "bye", 3, DanglingNodes),
      FlowDefinition("badfallback", "fb", "ghost", 3, BookingNodes) }

-----------------------------------------------------------------------------
(* FlowDefinition.validate: the error messages, as a set *)

start_errors(f) ==
    IF ~TruthyId(f.start_node_id)
    THEN {<<"start_node_id is required">>}
    ELSE IF f.start_node_id \notin DOMAIN f.nodes
         THEN {<<"start_node_id does not exist", f.start_node_id>>}
         ELSE {}

edge_errors(f) ==
    UNION { { <<"edge to non-existent node", n, f.nodes[n].edges[i].target_node_id>> :
                i \in { j \in DOMAIN f.nodes[n].edges :
                          f.nodes[n].edges[j].target_node_id \notin DOMAIN f.nodes } } :
            n \in DOMAIN f.nodes }

fallback_errors(f) ==
    IF TruthyId(f.fallback_node_id) /\ f.fallback_node_id \notin DOMAIN f.nodes
    THEN {<<"fallback_node_id does not exist", f.fallback_node_id>>}
    ELSE {}

validate_skips_edges(f) == start_errors(f) \cup fallback_errors(f)

validate_skips_fallback(f) == start_errors(f) \cup edge_errors(f)

validate(f) == start_errors(f) \cup edge_errors(f) \cup fallback_errors(f)

-----------------------------------------------------------------------------
(* NodeExecutor (nodes.py) *)

NodeResult(result_type, response_text, next_node_id, should_wait, error) ==
    [result_type |-> result_type, response_text |-> response_text,
     next_node_id |-> next_node_id, should_wait_for_input |-> should_wait,
     error_message |-> error, end_reason |-> "completed"]

NoResult == NodeResult("none", NoneText, NoneVal, TRUE, FALSE)

sorted_edges_document_order(edges) == edges

\* sorted(edges, key=lambda e: e.priority): a stable sort
sorted_edges(edges) ==
    LET n == Len(edges)
        rank(i) == 1 + Cardinality({ j \in 1..n :
                        \/ edges[j].priority < edges[i].priority
                        \/ edges[j].priority = edges[i].priority /\ j < i })
    IN [k \in 1..n |-> edges[CHOOSE i \in 1..n : rank(i) = k]]

\* the target of the first edge, in the order of es, whose index is in hits
first_target(es, hits) ==
    IF hits = {} THEN NoneVal
    ELSE es[CHOOSE i \in hits : \A j \in hits : i <= j].target_node_id

has_condition(e, type) ==
    \E i \in DOMAIN e.conditions : e.conditions[i].type = type

equation_match(variables, e) ==
    /\ has_condition(e, "equation")
    /\ \A i \in DOMAIN e.conditions :
          e.conditions[i].type = "equation"
             => evaluate_equation(variables, e.conditions[i].condition)

prompt_match_without_input(user_input, yes, e) ==
    has_condition(e, "prompt") /\ e.id \in yes

\* yes: the edges whose prompt conditions the generation capability judges met
prompt_match(user_input, yes, e) ==
    has_condition(e, "prompt") /\ TruthyId(user_input) /\ e.id \in yes

\* one pass in priority order, an edge matching by any of the three ways
evaluate_transitions_single_pass(edges, user_input, variables, yes) ==
    LET s == sorted_edges(edges)
    IN first_target(s, {i \in DOMAIN s : \/ equation_match(variables, s[i])
                                         \/ prompt_match(user_input, yes, s[i])
                                         \/ s[i].is_default})

evaluate_transitions(edges, user_input, variables, yes) ==
    IF edges = <<>> THEN NoneVal
    ELSE LET s == sorted_edges(edges)
             by_equation == first_target(s, {i \in DOMAIN s : equation_match(variables, s[i])})
             by_prompt == first_target(s, {i \in DOMAIN s : prompt_match(user_input, yes, s[i])})
             by_default == first_target(s, {i \in DOMAIN s : s[i].is_default})
         IN IF by_equation # NoneVal THEN by_equation
            ELSE IF by_prompt # NoneVal THEN by_prompt
            ELSE by_default

\* the edges for which _evaluate_transitions asks the generation capability
\* (lines 494-523): reached only when the equation pass matched nothing, in
\* sorted order up to the first edge judged met
judge_calls(edges, user_input, variables, yes) ==
    LET s == sorted_edges(edges)
    IN IF \E i \in DOMAIN s : equation_match(variables, s[i]) THEN {}
       ELSE { s[i].id : i \in { k \in DOMAIN s :
                 /\ has_condition(s[k], "prompt") /\ TruthyId(user_input)
                 /\ \A j \in 1..(k - 1) : ~prompt_match(user_input, yes, s[j]) } }

set_all(variables, names, value) ==
    [n \in DOMAIN variables \cup names |->
        IF n \in names THEN value ELSE variables[n]]

Executed(result, variables) == [result |-> result, variables |-> variables]

execute_conversation_always_waits(node, user_input, variables, o) ==
    LET vs == set_all(variables, IF TruthyId(user_input) THEN o.found ELSE {}, "Sam")
    IN Executed(NodeResult("response", Text(<<"reply">>),
                   evaluate_transitions(node.edges, user_input, vs, o.yes),
                   TRUE, FALSE), vs)

\* o: what the capabilities answer during this execution
\*   o.llm   the reply of generate_response: "text", "none" or "raise"
\*   o.found the variables the extraction call returns a value for
\*   o.yes   the edges whose prompt conditions are judged met
\*   o.func  the registered callable: "ok", "none" (returns None) or "raise"
execute_conversation(node, user_input, variables, o) ==
    IF user_input = NoneVal /\ node.auto_respond
    THEN Executed(NodeResult("response",
                     interpolate(variables,
                        IF Truthy(node.response_template)
                        THEN node.response_template ELSE node.instruction),
                     NoneVal, TRUE, FALSE), variables)
    ELSE LET extracted == IF TruthyId(user_input) /\ node.extract_variables # {}
                          THEN o.found ELSE {}
             vs == set_all(variables, extracted, "Sam")
             next == evaluate_transitions(node.edges, user_input, vs, o.yes)
         IN IF o.llm = "raise"
            THEN Executed(NodeResult("error", NoneText, NoneVal, TRUE, TRUE), vs)
            ELSE Executed(NodeResult("response",
                             IF o.llm = "text" THEN Text(<<"reply">>) ELSE NoneText,
                             next, next = NoneVal, FALSE), vs)

execute_function(node, registry, variables, o) ==
    IF node.function_name \notin registry
    THEN Executed(NodeResult("error",
                     IF Truthy(node.failure_message)
                     THEN interpolate(variables, node.failure_message)
                     ELSE NoneText,
                     NoneVal, TRUE, TRUE), variables)
    ELSE IF o.func = "raise"
    THEN Executed(NodeResult("response",
                     IF Truthy(node.failure_message)
                     THEN interpolate(variables, node.failure_message)
                     ELSE Text(<<"Sorry, I encountered an error">>),
                     NoneVal, TRUE, TRUE), variables)
    ELSE LET value == IF o.func = "ok" THEN "evt1" ELSE NoneVal
             v1 == IF TruthyId(node.result_variable)
                   THEN store_set(variables, node.result_variable, value)
                   ELSE variables
             v2 == IF Truthy(node.success_message)
                   THEN store_set(v1, "result", value) ELSE v1
             text == IF Truthy(node.success_message)
                     THEN interpolate(v2, node.success_message)
                     ELSE IF Truthy(node.pending_message)
                          THEN interpolate(variables, node.pending_message)
                          ELSE NoneText
             next == evaluate_transitions(node.edges, NoneVal, v2, {})
         IN Executed(NodeResult(IF Truthy(text) THEN "response" ELSE "continue",
                                text, next, FALSE, FALSE), v2)

execute_logic_split(node, variables) ==
    Executed(NodeResult("continue", NoneText,
                evaluate_transitions(node.edges, NoneVal, variables, {}),
                FALSE, FALSE), variables)

execute_end(node, variables) ==
    Executed([NodeResult("end", interpolate(variables, node.message),
                         NoneVal, FALSE, FALSE)
                EXCEPT !.end_reason = node.end_reason], variables)

execute_transfer(node, variables) ==
    Executed(NodeResult("transfer", interpolate(variables, node.message),
                        NoneVal, FALSE, FALSE), variables)

execute_extract_variable(node, user_input, variables, o) ==
    IF ~TruthyId(user_input)
    THEN Executed(NodeResult("wait_input", NoneText, NoneVal, TRUE, FALSE), variables)
    ELSE LET vs == set_all(variables, o.found, "Sam")
         IN Executed(NodeResult("continue", NoneText,
                        evaluate_transitions(node.edges, user_input, vs, o.yes),
                        FALSE, FALSE), vs)

execute(node, user_input, registry, variables, o) ==
    CASE node.type = "conversation" -> execute_conversation(node, user_input, variables, o)
      [] node.type = "function" -> execute_function(node, registry, variables, o)
      [] node.type = "logic_split" -> execute_logic_split(node, variables)
      [] node.type = "end" -> execute_end(node, variables)
      [] node.type = "transfer" -> execute_transfer(node, variables)
      [] node.type = "extract_variable" ->
            execute_extract_variable(node, user_input, variables, o)
      [] OTHER -> Executed(NodeResult("error", NoneText, NoneVal, TRUE, TRUE), variables)

prompt_edges(node) ==
    { node.edges[i].id : i \in { j \in DOMAIN node.edges :
                                   has_condition(node.edges[j], "prompt") } }

\* the capability answers that can differ for this execution
Outcomes(node, user_input, registry) ==
    LET asks == node.type \in {"conversation", "extract_variable"}
                /\ ~(node.type = "conversation" /\ user_input = NoneVal /\ node.auto_respond)
        extracts == asks /\ TruthyId(user_input)
        calls == node.type = "function" /\ node.function_name \in registry
    IN [llm : IF node.type = "conversation" /\ asks
              THEN {"text", "none", "raise"} ELSE {"none"},
        found : IF extracts THEN SUBSET node.extract_variables ELSE {{}},
        yes : IF extracts THEN SUBSET prompt_edges(node) ELSE {{}},
        func : IF calls THEN {"ok", "none", "raise"} ELSE {"none"}]

\* whether the execution really awaits a capability (and so yields the event loop)
Suspends(node, user_input, registry) ==
    \/ node.type = "conversation" /\ ~(user_input = NoneVal /\ node.auto_respond)
    \/ node.type = "function" /\ node.function_name \in registry
    \/ node.type = "extract_variable" /\ TruthyId(user_input)
          /\ (node.extract_variables # {} \/ prompt_edges(node) # {})

-----------------------------------------------------------------------------
(* FlowEngine (engine.py) *)

Callers == {1, 2}

\* the host passes on transcriptions of two characters or more (main_stage3.py line 336)
UserInputs == {"hi"}

Turn(role, text, node_id) == [role |-> role, text |-> text, node_id |-> node_id]

UserText(user_input) == Text(<<user_input>>)

add_turn_twice(s, role, text, node_id) ==
    [s EXCEPT !.history = Append(Append(@, Turn(role, text, node_id)),
                                 Turn(role, text, node_id))]

\* FlowState.add_turn
add_turn(s, role, text, node_id) ==
    [s EXCEPT !.history = Append(@, Turn(role, text, node_id))]

FlowState(f, variables) ==
    [flow_id |-> f.id, current_node_id |-> f.start_node_id,
     variables |-> variables, history |-> <<>>, retry_count |-> 0,
     is_complete |-> FALSE, end_reason |-> NoneVal]

\* _handle_node_result, lines 408-416: record the agent response
record_response(s, r) ==
    IF Truthy(r.response_text)
    THEN add_turn(s, "agent", r.response_text, s.current_node_id)
    ELSE s

\* _handle_node_result, lines 433-445: the retry/fallback policy
error_policy(f, s) ==
    IF TruthyId(f.fallback_node_id)
    THEN IF s.retry_count + 1 <= f.max_retries
         THEN [s EXCEPT !.retry_count = @ + 1,
                        !.current_node_id = f.fallback_node_id]
         ELSE [s EXCEPT !.retry_count = @ + 1, !.is_complete = TRUE,
                        !.end_reason = "max_retries"]
    ELSE s

apply_result_type_without_reason(f, s, r) ==
    CASE r.result_type = "end" ->
            [s EXCEPT !.is_complete = TRUE, !.end_reason = r.end_reason]
      [] r.result_type = "transfer" -> [s EXCEPT !.is_complete = TRUE]
      [] r.result_type = "error" -> error_policy(f, s)
      [] OTHER -> s

\* _handle_node_result, lines 419-445: the result types
apply_result_type(f, s, r) ==
    CASE r.result_type = "end" ->
            [s EXCEPT !.is_complete = TRUE, !.end_reason = r.end_reason]
      [] r.result_type = "transfer" ->
            [s EXCEPT !.is_complete = TRUE, !.end_reason = "transfer"]
      [] r.result_type = "error" -> error_policy(f, s)
      [] OTHER -> s

\* _handle_node_result, line 448
moves(s, r) == TruthyId(r.next_node_id) /\ ~s.is_complete

\* _handle_node_result, lines 449-451
apply_transition_keeps_retries(s, r) ==
    IF moves(s, r) THEN [s EXCEPT !.current_node_id = r.next_node_id] ELSE s

apply_transition(s, r) ==
    IF moves(s, r)
    THEN [s EXCEPT !.current_node_id = r.next_node_id, !.retry_count = 0]
    ELSE s

\* one activation of _handle_node_result, up to its recursive call:
\* the session afterwards, and the node it goes on to execute (if any)
handle_node_result(f, s, r) ==
    LET s1 == record_response(s, r)
        s2 == apply_result_type(f, s1, r)
        s3 == apply_transition(s2, r)
        goes_on == /\ moves(s2, r)
                   /\ ~r.should_wait_for_input
                   /\ r.next_node_id \in DOMAIN f.nodes
    IN [session |-> s3,
        next |-> IF goes_on THEN r.next_node_id ELSE NoneVal,
        transitioned |-> moves(s2, r),
        completed |-> s2.is_complete]

HookCall(hook, text, node) == [hook |-> hook, text |-> text, node |-> node]

call_hook_unguarded(raises) == IF raises THEN "raised" ELSE "ok"

\* try: await hook(...) except Exception: logger.warning(...)
\* (engine.py 277-280, 284-287, 413-416, 456-459)
call_hook(raises) == IF raises THEN "caught" ELSE "ok"

\* the hook calls of start (lines 273-288) for the result r of node node_id:
\* on_response for a non-empty response text, then on_state_change
start_hooks(node_id, r, raises) ==
    LET resp == IF Truthy(r.response_text)
                THEN <<HookCall("on_response", r.response_text, NoneVal)>> ELSE <<>>
        chg == <<HookCall("on_state_change", NoneText, node_id)>>
    IN IF resp # <<>> /\ call_hook(raises) = "raised"
       THEN [calls |-> resp, raised |-> TRUE, aborted |-> TRUE]
       ELSE [calls |-> resp \o chg, raised |-> raises,
             aborted |-> call_hook(raises) = "raised"]

\* one activation of _handle_node_result with both hooks registered: as
\* handle_node_result, with the hook calls it makes (lines 412-416 and
\* 455-459); a hook exception that got out would end the activation there
handle_node_result_with_hooks(f, s, r, raises) ==
    LET h == handle_node_result(f, s, r)
        resp == IF Truthy(r.response_text)
                THEN <<HookCall("on_response", r.response_text, NoneVal)>> ELSE <<>>
        chg == IF h.transitioned
               THEN <<HookCall("on_state_change", NoneText, r.next_node_id)>> ELSE <<>>
    IN IF resp # <<>> /\ call_hook(raises) = "raised"
       THEN [session |-> record_response(s, r), next |-> NoneVal,
             transitioned |-> FALSE, completed |-> FALSE,
             calls |-> resp, raised |-> TRUE, aborted |-> TRUE]
       ELSE IF chg # <<>> /\ call_hook(raises) = "raised"
       THEN [session |-> h.session, next |-> NoneVal,
             transitioned |-> h.transitioned, completed |-> h.completed,
             calls |-> resp \o chg, raised |-> TRUE, aborted |-> TRUE]
       ELSE [session |-> h.session, next |-> h.next,
             transitioned |-> h.transitioned, completed |-> h.completed,
             calls |-> resp \o chg, raised |-> raises /\ resp \o chg # <<>>,
             aborted |-> FALSE]

Last(op, outcome, result, transitioned, completed, pre_retry) ==
    [op |-> op, outcome |-> outcome, result |-> result,
     transitioned |-> transitioned, completed |-> completed,
     pre_retry |-> pre_retry]

Idle == [node |-> NoneVal, user_input |-> NoneVal]

NotValidated == {<<"not validated">>}
NoCall == [called |-> FALSE]
NoVad == [state |-> NoneVal]
NoHeap == [op |-> NoneVal]
NoHooks == [calls |-> <<>>, raised |-> FALSE]
NoAgent == [is_speaking |-> FALSE]
NoMachine == [current_state_name |-> NoneVal]

\* a caller that is running and will not yield before it returns
Running(u) ==
    /\ pc[u] = "exec"
    /\ ~Suspends(flow.nodes[pending[u].node], pending[u].user_input, function_registry)

\* cooperative scheduling: t can take a step when no other caller holds the loop
Scheduled(t) == \A u \in Callers \ {t} : ~Running(u)

AllIdle == \A u \in Callers : pc[u] = "idle"

Init ==
    /\ flow = NoFlow
    /\ node_executor = FALSE
    /\ function_registry = {}
    /\ vad_enabled = FALSE
    /\ session = NoSession
    /\ pc = [t \in Callers |-> "idle"]
    /\ pending = [t \in Callers |-> Idle]
    /\ last = Last("init", "ok", NoResult, FALSE, FALSE, 0)
    /\ err_run = 0
    /\ cascade = 0
    /\ turns = 0
    /\ vflow = NoFlow
    /\ verrors = NotValidated
    /\ tr = NoCall
    /\ vad = NoVad
    /\ vlog = NoVad
    /\ heap = NoHeap
    /\ hooks = NoHooks
    /\ agent = NoAgent
    /\ machine = NoMachine

\* FlowEngine.load_flow_from_dict. The host loads documents until one is accepted.
LoadFlow(doc) ==
    /\ AllIdle
    /\ ~node_executor
    /\ flow' = doc
    /\ IF validate(doc) # {}
       THEN /\ node_executor' = node_executor
            /\ last' = Last("load_flow_from_dict", "ValueError", NoResult, FALSE, FALSE, 0)
       ELSE /\ node_executor' = TRUE
            /\ last' = Last("load_flow_from_dict", "ok", NoResult, FALSE, FALSE, 0)
    /\ UNCHANGED <<function_registry, vad_enabled, session, pc, pending, err_run, cascade,
                   turns, vflow, verrors, tr, vad, vlog, heap, hooks, agent, machine>>

\* FlowEngine.register_function
RegisterFunction(name) ==
    /\ AllIdle
    /\ name \notin function_registry
    /\ function_registry' = function_registry \cup {name}
    /\ last' = Last("register_function", "ok", NoResult, FALSE, FALSE, 0)
    /\ UNCHANGED <<flow, node_executor, vad_enabled, session, pc, pending, err_run, cascade,
                   turns, vflow, verrors, tr, vad, vlog, heap, hooks, agent, machine>>

\* FlowEngine.create_session; the host creates one session
CreateSession(initial_variables) ==
    /\ AllIdle
    /\ session = NoSession
    /\ IF flow = NoFlow
       THEN /\ last' = Last("create_session", "RuntimeError", NoResult, FALSE, FALSE, 0)
            /\ UNCHANGED session
       ELSE /\ session' = FlowState(flow, set_all(<<>>, initial_variables, "Sam"))
            /\ last' = Last("create_session", "ok", NoResult, FALSE, FALSE, 0)
    /\ UNCHANGED <<flow, node_executor, function_registry, vad_enabled, pc, pending, err_run,
                   cascade, turns, vflow, verrors, tr, vad, vlog, heap, hooks, agent, machine>>

\* FlowEngine.start; raises: the registered hooks raise when called
Start(raises) ==
    /\ AllIdle
    /\ session # NoSession
    /\ turns < MaxTurns
    /\ turns' = turns + 1
    /\ IF flow = NoFlow \/ ~node_executor
       THEN /\ last' = Last("start", "RuntimeError", NoResult, FALSE, FALSE,
                            session.retry_count)
            /\ hooks' = NoHooks
            /\ UNCHANGED session
       ELSE IF session.current_node_id \notin DOMAIN flow.nodes
       THEN /\ last' = Last("start", "ValueError", NoResult, FALSE, FALSE,
                            session.retry_count)
            /\ hooks' = NoHooks
            /\ UNCHANGED session
       ELSE \E o \in Outcomes(flow.nodes[session.current_node_id], NoneVal,
                              function_registry) :
              \E x \in {execute(flow.nodes[session.current_node_id], NoneVal,
                                 function_registry, session.variables, o)} :
              \E k \in {start_hooks(session.current_node_id, x.result, raises)} :
              LET s1 == [session EXCEPT !.variables = x.variables]
              IN /\ session' = IF Truthy(x.result.response_text)
                               THEN add_turn(s1, "agent", x.result.response_text,
                                             session.current_node_id)
                               ELSE s1
                 /\ hooks' = [calls |-> k.calls, raised |-> k.raised]
                 /\ last' = IF k.aborted
                            THEN Last("start", "Exception", NoResult, FALSE, FALSE,
                                      session.retry_count)
                            ELSE Last("start", "ok", x.result, FALSE, FALSE,
                                      session.retry_count)
    /\ UNCHANGED <<flow, node_executor, function_registry, vad_enabled, pc, pending, err_run,
                   cascade, vflow, verrors, tr, vad, vlog, heap, agent, machine>>

is_complete_ignored(s) == FALSE

\* process_input, line 310: if state.is_complete
is_complete(s) == s.is_complete

\* FlowEngine.process_input, lines 307-328: up to the await of execute
ProcessInput(t, user_input) ==
    /\ pc[t] = "idle"
    /\ Scheduled(t)
    /\ session # NoSession
    /\ turns < MaxTurns
    /\ turns' = turns + 1
    /\ cascade' = 0
    /\ hooks' = NoHooks
    /\ IF flow = NoFlow \/ ~node_executor
       THEN /\ last' = Last("process_input", "RuntimeError", NoResult, FALSE, FALSE,
                            session.retry_count)
            /\ UNCHANGED <<session, pc, pending>>
       ELSE IF is_complete(session)
       THEN /\ last' = Last("process_input", "ok",
                            NodeResult("end", Text(<<"The conversation has ended.">>),
                                       NoneVal, TRUE, FALSE),
                            FALSE, FALSE, session.retry_count)
            /\ UNCHANGED <<session, pc, pending>>
       ELSE /\ session' = add_turn(session, "user", UserText(user_input),
                                   session.current_node_id)
            /\ IF session.current_node_id \notin DOMAIN flow.nodes
               THEN /\ last' = Last("process_input", "ok",
                                    NodeResult("error", NoneText, NoneVal, TRUE, TRUE),
                                    FALSE, FALSE, session.retry_count)
                    /\ UNCHANGED <<pc, pending>>
               ELSE /\ pc' = [pc EXCEPT ![t] = "exec"]
                    /\ pending' = [pending EXCEPT
                                     ![t] = [node |-> session.current_node_id,
                                             user_input |-> user_input]]
                    /\ last' = Last("process_input", "await", NoResult, FALSE, FALSE,
                                    session.retry_count)
    /\ UNCHANGED <<flow, node_executor, function_registry, vad_enabled, err_run,
                   vflow, verrors, tr, vad, vlog, heap, agent, machine>>

\* node_executor.execute returns and _handle_node_result runs, up to the next
\* execute it awaits (engine.py lines 331-339 and 401-476); raises: the
\* registered hooks raise when called
ExecuteNode(t, raises) ==
    /\ pc[t] = "exec"
    /\ Scheduled(t)
    /\ \E o \in Outcomes(flow.nodes[pending[t].node], pending[t].user_input,
                         function_registry) :
         \E x \in {execute(flow.nodes[pending[t].node], pending[t].user_input,
                            function_registry, session.variables, o)} :
         \E h \in {handle_node_result_with_hooks(
                      flow, [session EXCEPT !.variables = x.variables], x.result, raises)} :
            /\ session' = h.session
            /\ hooks' = [calls |-> h.calls, raised |-> h.raised]
            /\ cascade' = IF cascade < MaxCascade THEN cascade + 1 ELSE cascade
            /\ err_run' = IF x.result.result_type = "error" /\ ~h.transitioned
                          THEN err_run + 1 ELSE 0
            /\ IF h.next # NoneVal
               THEN /\ pending' = [pending EXCEPT
                                     ![t] = [node |-> h.next, user_input |-> NoneVal]]
                    /\ pc' = pc
                    /\ last' = Last("process_input", "await", x.result,
                                    h.transitioned, h.completed, session.retry_count)
               ELSE /\ pending' = [pending EXCEPT ![t] = Idle]
                    /\ pc' = [pc EXCEPT ![t] = "idle"]
                    /\ last' = Last("process_input",
                                    IF h.aborted THEN "Exception" ELSE "ok", x.result,
                                    h.transitioned, h.completed, session.retry_count)
    /\ UNCHANGED <<flow, node_executor, function_registry, vad_enabled, turns, vflow,
                   verrors, tr, vad, vlog, heap, agent, machine>>

\* FlowEngine.process_audio_frame, lines 352-353: before enable_vad is called
ProcessAudioFrame ==
    /\ AllIdle
    /\ ~vad_enabled
    /\ last' = Last("process_audio_frame", "RuntimeError", NoResult, FALSE, FALSE, 0)
    /\ UNCHANGED <<flow, node_executor, function_registry, vad_enabled, session,
                   pc, pending, err_run, cascade, turns, vflow, verrors, tr, vad, vlog, heap, hooks, agent, machine>>

\* a host that awaits every call before it makes the next one
Next ==
    \/ \E doc \in Docs : LoadFlow(doc)
    \/ RegisterFunction("create_calendar_event")
    \/ CreateSession({})
    \/ \E raises \in BOOLEAN : Start(raises)
    \/ \E user_input \in UserInputs : ProcessInput(1, user_input)
    \/ \E raises \in BOOLEAN : ExecuteNode(1, raises)
    \/ ProcessAudioFrame

Spec == Init /\ [][Next]_vars

\* the first turns of a session; the turn in progress always gets to run: the
\* event loop resumes a coroutine whose awaited capability has answered
FairSpec == Init /\ [][
    \/ \E doc \in Docs : LoadFlow(doc)
    \/ CreateSession({})
    \/ \E user_input \in UserInputs :
          turns < MaxFairTurns /\ ProcessInput(1, user_input)
    \/ ExecuteNode(1, FALSE)
    ]_vars /\ WF_vars(ExecuteNode(1, FALSE))

\* two audio-stream tasks of one agent share the session (main_stage3.py,
\* entrypoint: one asyncio task per subscribed audio track)
SpecConc == Init /\ [][
    \/ \E doc \in Docs : LoadFlow(doc)
    \/ CreateSession({})
    \/ \E t \in Callers, user_input \in UserInputs :
          turns < MaxConcTurns /\ ProcessInput(t, user_input)
    \/ \E t \in Callers : ExecuteNode(t, FALSE)
    ]_vars

-----------------------------------------------------------------------------
(* validate applied to generated flow documents *)

GenIds == {"", "a", "b"}

GenNode(target) ==
    IF target = NoneVal THEN LogicSplitNode(<<>>)
    ELSE LogicSplitNode(<<Edge("g", target, <<>>, TRUE, 0)>>)

GenFlows ==
    { FlowDefinition("gen", st, fb, 3, [n \in ids |-> GenNode(tgt[n])]) :
        ids \in SUBSET GenIds,
        tgt \in [GenIds -> GenIds \cup {"ghost", NoneVal}],
        st \in GenIds \cup {"ghost", NoneVal},
        fb \in GenIds \cup {"ghost", NoneVal} }

InitValidate ==
    /\ flow = NoFlow
    /\ node_executor = FALSE
    /\ function_registry = {}
    /\ vad_enabled = FALSE
    /\ session = NoSession
    /\ pc = [t \in Callers |-> "idle"]
    /\ pending = [t \in Callers |-> Idle]
    /\ last = Last("init", "ok", NoResult, FALSE, FALSE, 0)
    /\ err_run = 0
    /\ cascade = 0
    /\ turns = 0
    /\ vflow \in GenFlows
    /\ verrors = NotValidated
    /\ tr = NoCall
    /\ vad = NoVad
    /\ vlog = NoVad
    /\ heap = NoHeap
    /\ hooks = NoHooks
    /\ agent = NoAgent
    /\ machine = NoMachine

RunValidate ==
    /\ verrors = NotValidated
    /\ verrors' = validate(vflow)
    /\ UNCHANGED <<flow, node_executor, function_registry, vad_enabled, session,
                   pc, pending, last, err_run, cascade, turns, vflow, tr, vad, vlog, heap, hooks, agent, machine>>

SpecValidate == InitValidate /\ [][RunValidate]_vars

-----------------------------------------------------------------------------
(* _evaluate_transitions applied to generated edge lists *)

GenEdgeIds == <<"e1", "e2", "e3">>
GenVariables == {<<>>, [name |-> "Sam"]}

\* edge lists e1, e2, ...: edge ei leads to the node of the same name
GenEdgeLists ==
    UNION { { [i \in 1..n |-> Edge(GenEdgeIds[i], GenEdgeIds[i], c[i], d[i], p[i])] :
                c \in [1..n -> {<<>>, <<NameExists>>, <<WantsToLeave>>,
                                 <<NameExists, WantsToLeave>>}],
                d \in [1..n -> BOOLEAN],
                p \in [1..n -> {0, 1}] } : n \in 0..Len(GenEdgeIds) }

InitTransitions ==
    /\ flow = NoFlow
    /\ node_executor = FALSE
    /\ function_registry = {}
    /\ vad_enabled = FALSE
    /\ session = NoSession
    /\ pc = [t \in Callers |-> "idle"]
    /\ pending = [t \in Callers |-> Idle]
    /\ last = Last("init", "ok", NoResult, FALSE, FALSE, 0)
    /\ err_run = 0
    /\ cascade = 0
    /\ turns = 0
    /\ vflow = NoFlow
    /\ verrors = NotValidated
    /\ vad = NoVad
    /\ vlog = NoVad
    /\ heap = NoHeap
    /\ hooks = NoHooks
    /\ agent = NoAgent
    /\ machine = NoMachine
    /\ \E edges \in GenEdgeLists, user_input \in {NoneVal, "", "hi"}, variables \in GenVariables :
         \E yes \in SUBSET prompt_edges([edges |-> edges]) :
            tr = [called |-> FALSE, edges |-> edges, user_input |-> user_input,
                  variables |-> variables, yes |-> yes]

RunTransitions ==
    /\ ~tr.called
    /\ tr' = [tr EXCEPT !.called = TRUE] @@
              [next |-> evaluate_transitions(tr.edges, tr.user_input, tr.variables, tr.yes),
               asked |-> judge_calls(tr.edges, tr.user_input, tr.variables, tr.yes)]
    /\ UNCHANGED <<flow, node_executor, function_registry, vad_enabled, session,
                   pc, pending, last, err_run, cascade, turns, vflow, verrors, vad, vlog, heap, hooks, agent, machine>>

SpecTransitions == InitTransitions /\ [][RunTransitions]_vars

-----------------------------------------------------------------------------
(* The claims *)

\* C1: every call of process_input terminates: the turn in progress, with its
\* cascade of auto-continuations, eventually returns.
C1_ProcessInputTerminates == (pc[1] = "exec") ~> (pc[1] = "idle")

\* C2: turns of one session are strictly sequential: no call of process_input
\* reads or changes the session while another call's turn is in progress.
C2_TurnsAreSequential == ~(pc[1] = "exec" /\ pc[2] = "exec")

HandledError ==
    /\ last.op = "process_input"
    /\ last.result.result_type = "error"
    /\ session # NoSession
    /\ flow # NoFlow

\* C3: with a fallback node configured, right after a run of max_retries
\* consecutive error-kind results (no other result and no successful transition
\* in between), the current node is the fallback node and the session is not
\* complete.
C3_FallbackAfterMaxRetries ==
    (HandledError /\ TruthyId(flow.fallback_node_id)
        /\ err_run > 0 /\ err_run = flow.max_retries)
    => (session.current_node_id = flow.fallback_node_id /\ ~session.is_complete)

\* C4: when the consecutive error-kind results exceed the retry budget, the session is at
\* the fallback node if one is configured, and is otherwise complete with
\* end_reason max_retries.
C4_RetryExhausted ==
    (HandledError /\ err_run > flow.max_retries)
    => IF TruthyId(flow.fallback_node_id)
       THEN session.current_node_id = flow.fallback_node_id
       ELSE session.is_complete /\ session.end_reason = "max_retries"

\* C5: the retry counter is 0 right after every step in which
\* _handle_node_result moves current_node_id to the result's next_node_id.
C5_RetryResetOnTransition ==
    last.transitioned => session.retry_count = 0

C5_Witness ==
    last.transitioned /\ last.pre_retry > 0 /\ session.retry_count = 0

\* C6: a session created on the validated flow always has a current_node_id
\* that is the id of a node of that flow.
C6_CurrentNodeInFlow ==
    (session # NoSession /\ node_executor /\ session.flow_id = flow.id)
    => session.current_node_id \in DOMAIN flow.nodes

C6_Witness ==
    /\ session # NoSession /\ node_executor /\ session.flow_id = flow.id
    /\ session.current_node_id = flow.fallback_node_id
    /\ session.retry_count > 0

\* C7: no turn-taking operation raises an exception to the host.
C7_NoExceptionToHost ==
    last.op \in {"start", "process_input", "process_audio_frame"}
    => last.outcome \notin {"RuntimeError", "ValueError"}

\* C8: whenever a turn makes the session complete, the result returned for
\* that turn carries a non-empty response text.
C8_NeverEndsSilently ==
    (last.op = "process_input" /\ last.completed)
    => Truthy(last.result.response_text)

\* C9: a call of load_flow_from_dict that rejects the document leaves the
\* engine's flow and node executor as they were before the call.
C9_RejectedLoadChangesNothing ==
    [][((\E doc \in Docs : LoadFlow(doc)) /\ last'.outcome = "ValueError")
          => (flow' = flow /\ node_executor' = node_executor)]_vars

AllTargetsExist(f) ==
    \A n \in DOMAIN f.nodes : \A i \in DOMAIN f.nodes[n].edges :
        f.nodes[n].edges[i].target_node_id \in DOMAIN f.nodes

\* C10 as stated: validate returns no error iff the start-node id and every
\* edge target are ids of nodes of the flow.
C10_ValidateIffTargetsExist ==
    verrors # NotValidated
    => (verrors = {} <=>
          (vflow.start_node_id \in DOMAIN vflow.nodes /\ AllTargetsExist(vflow)))

\* C10 amended: validate returns no error iff the start-node id is non-empty
\* and names a node, every edge target names a node, and the fallback-node id,
\* when one is configured, names a node.
C10_ValidateIffReferencesExist ==
    verrors # NotValidated
    => (verrors = {} <=>
          /\ TruthyId(vflow.start_node_id)
          /\ vflow.start_node_id \in DOMAIN vflow.nodes
          /\ AllTargetsExist(vflow)
          /\ (TruthyId(vflow.fallback_node_id)
                => vflow.fallback_node_id \in DOMAIN vflow.nodes))

C10_Witness ==
    /\ verrors = {}
    /\ TruthyId(vflow.fallback_node_id)
    /\ \E n \in DOMAIN vflow.nodes : vflow.nodes[n].edges # <<>>

\* the edges of the call that match in each of the three ways
EquationMatches ==
    { i \in DOMAIN tr.edges :
        /\ \E k \in DOMAIN tr.edges[i].conditions :
              tr.edges[i].conditions[k].type = "equation"
        /\ \A k \in DOMAIN tr.edges[i].conditions :
              tr.edges[i].conditions[k].type = "equation"
                 => evaluate_equation(tr.variables, tr.edges[i].conditions[k].condition) }

PromptMatches ==
    { i \in DOMAIN tr.edges :
        /\ \E k \in DOMAIN tr.edges[i].conditions :
              tr.edges[i].conditions[k].type = "prompt"
        /\ tr.user_input \notin {NoneVal, ""}
        /\ tr.edges[i].id \in tr.yes }

DefaultEdges == { i \in DOMAIN tr.edges : tr.edges[i].is_default }

Targets(is) == { tr.edges[i].target_node_id : i \in is }

\* C11: when the equation conditions of one or more edges hold, the call
\* returns the target of one of those edges, and none of them has a lower
\* priority number than the one selected, whatever the order in the document.
C11_LowestPriorityEquationWins ==
    (tr.called /\ EquationMatches # {})
    => \E i \in EquationMatches :
          /\ tr.next = tr.edges[i].target_node_id
          /\ \A j \in EquationMatches : tr.edges[i].priority <= tr.edges[j].priority

C11_Witness ==
    /\ tr.called /\ Len(tr.edges) >= 2
    /\ {1, 2} \subseteq EquationMatches
    /\ tr.edges[1].priority = 1 /\ tr.edges[2].priority = 0
    /\ tr.next = tr.edges[2].target_node_id

\* C12: the three passes: an edge matched by its equations wins over every
\* prompt and default edge; a prompt edge is selected only when no equation
\* matched; a default edge only when neither an equation nor a prompt matched;
\* when nothing matches no next node is returned.
C12_ThreePasses ==
    tr.called =>
       /\ EquationMatches # {} => tr.next \in Targets(EquationMatches)
       /\ (EquationMatches = {} /\ PromptMatches # {}) => tr.next \in Targets(PromptMatches)
       /\ (EquationMatches = {} /\ PromptMatches = {} /\ DefaultEdges # {})
             => tr.next \in Targets(DefaultEdges)
       /\ (EquationMatches = {} /\ PromptMatches = {} /\ DefaultEdges = {})
             => tr.next = NoneVal

\* an equation edge of priority 1 selected although a default edge and a prompt
\* edge judged met have priority 0
C12_Witness ==
    /\ tr.called /\ Len(tr.edges) = 3
    /\ EquationMatches = {3} /\ 1 \in PromptMatches /\ DefaultEdges = {2}
    /\ tr.edges[3].priority = 1 /\ tr.edges[1].priority = 0 /\ tr.edges[2].priority = 0
    /\ tr.next = tr.edges[3].target_node_id

\* C13: a call without user input asks the generation capability about no
\* edge, and returns the target of an edge matched by its equations or of a
\* default edge, or no node.
C13_NoPromptWithoutInput ==
    (tr.called /\ tr.user_input \in {NoneVal, ""})
    => /\ tr.asked = {}
       /\ tr.next \in Targets(EquationMatches \cup DefaultEdges) \cup {NoneVal}

\* an edge whose prompt condition would be judged met, and is not selected
C13_Witness ==
    /\ tr.called /\ tr.user_input = NoneVal
    /\ \E i \in DOMAIN tr.edges :
          /\ tr.edges[i].id \in tr.yes /\ ~tr.edges[i].is_default
          /\ i \notin EquationMatches
          /\ tr.next # tr.edges[i].target_node_id
    /\ tr.next # NoneVal

\* the turn in progress is about to get the result of a Conversation node
\* executed with user input
ConversationWithInput ==
    /\ pc[1] = "exec"
    /\ flow.nodes[pending[1].node].type = "conversation"
    /\ pending[1].user_input # NoneVal

-----------------------------------------------------------------------------
(* VADProcessor (vad_processor.py) *)

\* None where the source holds Optional[float] milliseconds
NoMs == -1
NoAudio == [from |-> NoMs, to |-> NoMs]

\* the VADConfig of the model
config ==
    [min_speech_duration_ms |-> 1200, silence_threshold_ms |-> 1200,
     speech_pad_ms |-> 100, frame_duration_ms |-> 500]

silence_frame_threshold == config.silence_threshold_ms \div config.frame_duration_ms
min_speech_frames == config.min_speech_duration_ms \div config.frame_duration_ms

Max(a, b) == IF a >= b THEN a ELSE b
Min(a, b) == IF a <= b THEN a ELSE b

\* VADProcessor.__init__: the state tracking fields, the buffer inlined
NewVad ==
    [state |-> "silence", total_duration_ms |-> 0,
     speech_start_ms |-> NoMs, speech_end_ms |-> NoMs,
     silence_frames |-> 0, speech_frames |-> 0]

\* AudioBuffer.clear
clear(v) ==
    [v EXCEPT !.total_duration_ms = 0, !.speech_start_ms = NoMs, !.speech_end_ms = NoMs]

\* AudioBuffer.add_frame
add_frame(v, duration_ms) ==
    [v EXCEPT !.total_duration_ms = @ + duration_ms]

\* AudioBuffer.get_speech_segment: the slice of the buffered audio, in ms
get_speech_segment(v) ==
    IF v.speech_start_ms = NoMs \/ v.total_duration_ms = 0 THEN NoAudio
    ELSE LET start == Max(0, v.speech_start_ms)
             end == IF v.speech_end_ms \notin {NoMs, 0}
                    THEN v.speech_end_ms ELSE v.total_duration_ms
         IN [from |-> Min(start, v.total_duration_ms),
             to |-> Min(end, v.total_duration_ms)]

reset_keeps_counters(v) == [clear(v) EXCEPT !.state = "silence"]

reset_to_idle(v) == [clear(v) EXCEPT !.state = "idle"]

reset_keeps_offsets(v) ==
    [v EXCEPT !.state = "silence", !.total_duration_ms = 0,
              !.silence_frames = 0, !.speech_frames = 0]

\* VADProcessor.reset
reset(v) ==
    [clear(v) EXCEPT !.state = "silence", !.silence_frames = 0, !.speech_frames = 0]

trim_buffer_never(v, keep_ms) == v

\* VADProcessor._trim_buffer
trim_buffer(v, keep_ms) ==
    IF v.total_duration_ms > keep_ms
    THEN [v EXCEPT !.total_duration_ms = keep_ms] ELSE v

end_of_speech_pausing(v, frame_duration_ms) ==
    IF v.silence_frames >= silence_frame_threshold
    THEN [v EXCEPT !.state = "complete",
                   !.speech_end_ms = v.total_duration_ms
                                     - (v.silence_frames * frame_duration_ms)
                                     + config.speech_pad_ms]
    ELSE [v EXCEPT !.state = "pause"]

\* _update_state, lines 336-343 (and 353-359): end of speech after enough silence
end_of_speech(v, frame_duration_ms) ==
    IF v.silence_frames >= silence_frame_threshold
    THEN [v EXCEPT !.state = "complete",
                   !.speech_end_ms = v.total_duration_ms
                                     - (v.silence_frames * frame_duration_ms)
                                     + config.speech_pad_ms]
    ELSE v

phase_step_counting_all_silence(v, is_speech, frame_duration_ms) ==
    CASE v.state = "silence" ->
           IF is_speech
           THEN [v EXCEPT !.state = "speaking", !.speech_frames = 1,
                          !.silence_frames = 0,
                          !.speech_start_ms =
                             Max(0, v.total_duration_ms - frame_duration_ms
                                    - config.speech_pad_ms)]
           ELSE IF v.total_duration_ms > 5000 THEN trim_buffer(v, 500) ELSE v
      [] v.state = "speaking" ->
           IF is_speech
           THEN [v EXCEPT !.speech_frames = @ + 1]
           ELSE end_of_speech([v EXCEPT !.silence_frames = @ + 1], frame_duration_ms)
      [] OTHER -> v

\* _update_state, lines 303-359: the phase machine
phase_step(v, is_speech, frame_duration_ms) ==
    CASE v.state = "silence" ->
           IF is_speech
           THEN [v EXCEPT !.state = "speaking", !.speech_frames = 1,
                          !.silence_frames = 0,
                          !.speech_start_ms =
                             Max(0, v.total_duration_ms - frame_duration_ms
                                    - config.speech_pad_ms)]
           ELSE IF v.total_duration_ms > 5000 THEN trim_buffer(v, 500) ELSE v
      [] v.state = "speaking" ->
           IF is_speech
           THEN [v EXCEPT !.speech_frames = @ + 1, !.silence_frames = 0]
           ELSE end_of_speech([v EXCEPT !.silence_frames = @ + 1], frame_duration_ms)
      [] v.state = "pause" ->
           IF is_speech
           THEN [v EXCEPT !.state = "speaking", !.speech_frames = @ + 1,
                          !.silence_frames = 0]
           ELSE end_of_speech([v EXCEPT !.silence_frames = @ + 1], frame_duration_ms)
      [] OTHER -> v

VADResult(is_speech_complete, audio_data, state, is_speaking, speech_duration_ms) ==
    [is_speech_complete |-> is_speech_complete, audio_data |-> audio_data,
     state |-> state, is_speaking |-> is_speaking,
     speech_duration_ms |-> speech_duration_ms]

\* VADProcessor._update_state: the processor afterwards, the VADResult, and
\* whether the on-speech-start and on-speech-end hooks are called
update_state(v, is_speech, frame_duration_ms) ==
    LET v1 == add_frame(v, frame_duration_ms)
        v2 == phase_step(v1, is_speech, frame_duration_ms)
        declared == v2.state = "complete"
        is_speech_complete == declared /\ v2.speech_frames >= min_speech_frames
        audio_data == IF is_speech_complete THEN get_speech_segment(v2) ELSE NoAudio
        v3 == IF declared THEN reset(v2) ELSE v2
    IN [vad |-> v3,
        result |-> VADResult(is_speech_complete, audio_data, v3.state, is_speech,
                             v3.speech_frames * config.frame_duration_ms),
        speech_start |-> v.state = "silence" /\ is_speech,
        speech_end |-> is_speech_complete,
        declared |-> declared,
        speech_frames |-> v2.speech_frames,
        warned |-> FALSE,
        trimmed |-> v.state = "silence" /\ ~is_speech /\ v1.total_duration_ms > 5000]

\* _update_state with both hooks set, lines 314-318 and 377-381: each hook is
\* called inside a try whose except clause logs a warning and goes on.
\* `raises` says whether a hook raises when it is called.
update_state_with_hooks_propagating(v, is_speech, frame_duration_ms, raises) ==
    LET u == update_state(v, is_speech, frame_duration_ms)
        called == u.speech_start \/ u.speech_end
        v1 == add_frame(v, frame_duration_ms)
    IN  IF called /\ raises
        THEN [u EXCEPT !.vad = phase_step(v1, is_speech, frame_duration_ms),
                       !.result = VADResult(FALSE, NoAudio, "raised", is_speech, 0),
                       !.warned = FALSE]
        ELSE [u EXCEPT !.warned = FALSE]

update_state_with_hooks(v, is_speech, frame_duration_ms, raises) ==
    LET u == update_state(v, is_speech, frame_duration_ms)
        called == u.speech_start \/ u.speech_end
    IN  [u EXCEPT !.warned = called /\ raises]

\* the log of a processor that has been fed nothing since it was made or reset:
\*   frame_ms  duration of the frames it is fed
\*   fed       frames processed
\*   run       shape of the frames fed: "N" non-speech only, "M" then speech
\*             only, "K" then non-speech only, "X" anything else
\*   n, m, k   the lengths of the three stretches
\*   onset_ms, quiet_ms   buffer offsets where stretch M and stretch K begin
\*   emitted, emit_at, audio   results with is_speech_complete, the frame of
\*             the latest one and its audio_data
\*   started, ended   calls of the on-speech-start and on-speech-end hooks
\*   declared, declared_frames, hook_end, trimmed   whether the latest frame
\*             declared end of speech, with how many speech frames, whether it
\*             called the on-speech-end hook, whether it trimmed the buffer
\*   quiet     the non-speech frames fed in a row up to the latest frame
\*   hook_start, warned   whether the latest frame called the on-speech-start
\*             hook, and whether a hook it called raised
\*   open      whether the on-speech-start hook has been called since the
\*             latest call of the on-speech-end hook (kept across reset)
\*   before    the processor before the latest call
NewLog(op, frame_ms) ==
    [op |-> op, frame_ms |-> frame_ms, fed |-> 0, run |-> "N", n |-> 0, m |-> 0, k |-> 0,
     onset_ms |-> NoMs, quiet_ms |-> NoMs,
     emitted |-> 0, emit_at |-> 0, audio |-> NoAudio,
     started |-> 0, ended |-> 0,
     declared |-> FALSE, declared_frames |-> 0, hook_end |-> FALSE, trimmed |-> FALSE,
     quiet |-> 0, hook_start |-> FALSE, warned |-> FALSE, open |-> FALSE,
     before |-> NewVad,
     result |-> VADResult(FALSE, NoAudio, "silence", FALSE, 0)]

next_run(run, is_speech) ==
    CASE run = "N" -> IF is_speech THEN "M" ELSE "N"
      [] run = "M" -> IF is_speech THEN "M" ELSE "K"
      [] run = "K" -> IF is_speech THEN "X" ELSE "K"
      [] OTHER -> "X"

InitVad ==
    /\ flow = NoFlow
    /\ node_executor = FALSE
    /\ function_registry = {}
    /\ vad_enabled = FALSE
    /\ session = NoSession
    /\ pc = [t \in Callers |-> "idle"]
    /\ pending = [t \in Callers |-> Idle]
    /\ last = Last("init", "ok", NoResult, FALSE, FALSE, 0)
    /\ err_run = 0
    /\ cascade = 0
    /\ turns = 0
    /\ vflow = NoFlow
    /\ verrors = NotValidated
    /\ tr = NoCall
    /\ vad = NewVad
    \* process_frame, lines 227-229: the duration of a frame is computed from the
    \* length of its data; the frames one processor is fed are all of one length
    /\ \E frame_ms \in {250, 500, 1500} : vlog = NewLog("init", frame_ms)
    /\ heap = NoHeap
    /\ hooks = NoHooks
    /\ agent = NoAgent
    /\ machine = NoMachine

\* VADProcessor.process_frame on a frame the detector judges speech or not
ProcessFrame(is_speech, raises) ==
    /\ vlog.fed < MaxFrames
    /\ LET u == update_state_with_hooks(vad, is_speech, vlog.frame_ms, raises)
           run == next_run(vlog.run, is_speech)
       IN /\ vad' = u.vad
          /\ vlog' = [vlog EXCEPT
                !.op = "process_frame",
                !.fed = @ + 1,
                !.run = run,
                !.n = IF run = "N" THEN @ + 1 ELSE @,
                !.m = IF run = "M" THEN @ + 1 ELSE @,
                !.k = IF run = "K" THEN @ + 1 ELSE @,
                !.onset_ms = IF vlog.run = "N" /\ run = "M"
                             THEN vad.total_duration_ms ELSE @,
                !.quiet_ms = IF vlog.run = "M" /\ run = "K"
                             THEN vad.total_duration_ms ELSE @,
                !.emitted = IF u.result.is_speech_complete THEN @ + 1 ELSE @,
                !.emit_at = IF u.result.is_speech_complete THEN vlog.fed + 1 ELSE @,
                !.audio = IF u.result.is_speech_complete THEN u.result.audio_data ELSE @,
                !.started = IF u.speech_start THEN @ + 1 ELSE @,
                !.ended = IF u.speech_end THEN @ + 1 ELSE @,
                !.declared = u.declared,
                !.hook_end = u.speech_end,
                !.quiet = IF is_speech THEN 0 ELSE @ + 1,
                !.hook_start = u.speech_start,
                !.warned = u.warned,
                !.open = IF u.speech_end THEN FALSE
                         ELSE IF u.speech_start THEN TRUE ELSE @,
                !.declared_frames = u.speech_frames,
                !.trimmed = u.trimmed,
                !.before = vad,
                !.result = u.result]
    /\ UNCHANGED <<flow, node_executor, function_registry, vad_enabled, session,
                   pc, pending, last, err_run, cascade, turns, vflow, verrors, tr, heap, hooks, agent, machine>>

\* VADProcessor.reset called by the host
Reset ==
    /\ vad' = reset(vad)
    /\ vlog' = [NewLog("reset", vlog.frame_ms) EXCEPT !.before = vad, !.open = vlog.open]
    /\ UNCHANGED <<flow, node_executor, function_registry, vad_enabled, session,
                   pc, pending, last, err_run, cascade, turns, vflow, verrors, tr, heap, hooks, agent, machine>>

SpecVad == InitVad /\ [][
    \/ \E is_speech, raises \in BOOLEAN : ProcessFrame(is_speech, raises)
    \/ Reset
    ]_vars

\* C15: from a fresh or reset processor, once N non-speech frames, then M
\* speech frames lasting at least the minimum speech duration, then K
\* non-speech frames lasting at least the silence threshold have been fed,
\* exactly one result had is_speech_complete, it came on the frame where the
\* silence count reached the threshold, and its audio runs from the speech
\* onset minus the padding (not below 0) to the silence onset plus the padding.
C15_OneUtterancePerSpeechRun ==
    (/\ vlog.run = "K"
     /\ vlog.m * vlog.frame_ms >= config.min_speech_duration_ms
     /\ vlog.k * vlog.frame_ms >= config.silence_threshold_ms)
    => /\ vlog.emitted = 1
       /\ vlog.emit_at = vlog.n + vlog.m + silence_frame_threshold
       /\ vlog.audio = [from |-> Max(0, vlog.onset_ms - config.speech_pad_ms),
                        to |-> vlog.quiet_ms + config.speech_pad_ms]

\* C16: a frame that declares end of speech after fewer than the minimum
\* speech frames returns no utterance and does not call the on-speech-end
\* hook; after any frame that declares end of speech the processor is in
\* SILENCE with an empty buffer and zero speech and silence counters.
C16_ShortSpeechDiscarded ==
    (vlog.op = "process_frame" /\ vlog.declared)
    => /\ vlog.declared_frames < min_speech_frames
            => /\ ~vlog.result.is_speech_complete
               /\ vlog.result.audio_data = NoAudio
               /\ ~vlog.hook_end
       /\ vad.state = "silence"
       /\ vad.total_duration_ms = 0
       /\ vad.speech_start_ms = NoMs /\ vad.speech_end_ms = NoMs
       /\ vad.speech_frames = 0 /\ vad.silence_frames = 0

C16_Witness ==
    /\ vlog.op = "process_frame" /\ vlog.declared
    /\ vlog.declared_frames = 1 /\ vlog.declared_frames < min_speech_frames
    /\ vlog.started = 1 /\ vlog.ended = 0 /\ vlog.emitted = 0
    /\ vad = NewVad

\* C17: the phase of the processor is always one of SILENCE, SPEAKING, PAUSE
\* and SPEECH_COMPLETE.
C17_PhaseIsOneOfFour ==
    vad.state \in {"silence", "speaking", "pause", "complete"}

C17_Witness ==
    /\ vad.state = "speaking" /\ vad.silence_frames > 0
    /\ vlog.emitted > 0

\* C18: reset gives the state of a freshly made processor whatever the state
\* it is called in, calling it again changes nothing, and a frame processed
\* after it gives what it gives on a freshly made processor.
C18_ResetIdempotent ==
    /\ reset(vad) = NewVad
    /\ reset(reset(vad)) = reset(vad)
    /\ vlog.op = "reset" => vad = NewVad
    /\ \A is_speech \in BOOLEAN :
          update_state(reset(vad), is_speech, vlog.frame_ms)
             = update_state(NewVad, is_speech, vlog.frame_ms)

C18_Witness ==
    /\ vlog.op = "reset" /\ vad = NewVad
    /\ vlog.before.state = "speaking" /\ vlog.before.silence_frames > 0
    /\ vlog.before.speech_start_ms > 0

\* C19: in SILENCE the buffered duration never exceeds 5000 ms by more than
\* one frame, and it is 500 ms right after a frame that trimmed the buffer.
C19_SilenceBufferBounded ==
    /\ vad.state = "silence"
          => vad.total_duration_ms <= 5000 + vlog.frame_ms
    /\ vlog.trimmed => vad.total_duration_ms = 500

C19_Witness ==
    /\ vlog.trimmed /\ vad.state = "silence" /\ vad.total_duration_ms = 500
    /\ vlog.before.total_duration_ms = 5000

-----------------------------------------------------------------------------
(* Sessions and their variable stores (engine.py, dynamic_variables.py) *)

\* A dict is an object: heap.dicts[a] is the mapping held by the dict at
\* address a, and a reference to a dict is its address.
SessionIds == {"s1", "s2"}
StoreNames == {"name"}

\* the initial_variables a flow document may configure
GenInitialVariables == {<<>>, store_set(<<>>, "name", "Sam")}

dict_copy_alias(h, a) == [heap |-> h, ref |-> a]

\* dict.copy(): a new dict object holding the same items
dict_copy(h, a) ==
    [heap |-> [h EXCEPT !.dicts = Append(@, h.dicts[a])], ref |-> Len(h.dicts) + 1]

\* the dict display {}: a new empty dict object
dict_new(h) ==
    [heap |-> [h EXCEPT !.dicts = Append(@, <<>>)], ref |-> Len(h.dicts) + 1]

VariableChange(variable_name, old_value, new_value, source) ==
    [variable_name |-> variable_name, old_value |-> old_value,
     new_value |-> new_value, source |-> source]

\* dict.get(name): None when the key is absent
dict_get(d, name) == IF name \in DOMAIN d THEN d[name] ELSE NoneVal

\* DynamicVariableStore.__init__: _variables is a copy of a non-empty
\* argument and a new dict otherwise; _history is a new list
DynamicVariableStore(h, initial_variables) ==
    LET c == IF DOMAIN h.dicts[initial_variables] # {}
             THEN dict_copy(h, initial_variables) ELSE dict_new(h)
    IN [heap |-> c.heap, store |-> [variables |-> c.ref, history |-> <<>>]]

\* DynamicVariableStore.set on the store st
set(h, st, name, value, source) ==
    LET d == h.dicts[st.variables]
    IN [heap |-> [h EXCEPT !.dicts[st.variables] = store_set(d, name, value)],
        store |-> [st EXCEPT !.history =
                      Append(@, VariableChange(name, dict_get(d, name), value, source))]]

\* DynamicVariableStore.delete on the store st
delete(h, st, name) ==
    LET d == h.dicts[st.variables]
    IN IF name \in DOMAIN d
       THEN [heap |-> [h EXCEPT !.dicts[st.variables] =
                                   [n \in DOMAIN d \ {name} |-> d[n]]],
             store |-> [st EXCEPT !.history =
                           Append(@, VariableChange(name, d[name], NoneVal, "delete"))]]
       ELSE [heap |-> h, store |-> st]

\* DynamicVariableStore.clear on the store st
store_clear(h, st) ==
    [heap |-> [h EXCEPT !.dicts[st.variables] = <<>>],
     store |-> [st EXCEPT !.history = <<>>]]

\* create_session, lines 229-231: set every item of the caller's mapping
RECURSIVE set_initial(_, _, _)
set_initial(h, st, initial_variables) ==
    IF DOMAIN initial_variables = {} THEN [heap |-> h, store |-> st]
    ELSE LET key == CHOOSE k \in DOMAIN initial_variables : TRUE
             r == set(h, st, key, initial_variables[key], "initial")
         IN set_initial(r.heap, r.store,
                        [k \in DOMAIN initial_variables \ {key} |-> initial_variables[k]])

\* FlowEngine.create_session, lines 225-241
create_session(h, session_id, initial_variables) ==
    LET c == dict_copy(h, h.initial_variables)
        v == DynamicVariableStore(c.heap, c.ref)
        r == set_initial(v.heap, v.store, initial_variables)
    IN [r.heap EXCEPT !.sessions =
           [s \in DOMAIN @ \cup {session_id} |->
               IF s = session_id THEN r.store ELSE @[s]]]

\* what a session's store holds: its variables and its change history
StoreView(h, s) ==
    [variables |-> h.dicts[h.sessions[s].variables],
     history |-> h.sessions[s].history]

\* the initial variables the flow configures
InitialVariables(h) == h.dicts[h.initial_variables]

Marked(h, op, acted) == [h EXCEPT !.op = op, !.acted = acted]

\* an engine with a flow loaded whose initial_variables is the dict at address 1
InitSessions ==
    /\ flow = NoFlow
    /\ node_executor = FALSE
    /\ function_registry = {}
    /\ vad_enabled = FALSE
    /\ session = NoSession
    /\ pc = [t \in Callers |-> "idle"]
    /\ pending = [t \in Callers |-> Idle]
    /\ last = Last("init", "ok", NoResult, FALSE, FALSE, 0)
    /\ err_run = 0
    /\ cascade = 0
    /\ turns = 0
    /\ vflow = NoFlow
    /\ verrors = NotValidated
    /\ tr = NoCall
    /\ vad = NoVad
    /\ vlog = NoVad
    /\ \E initial_variables \in GenInitialVariables :
          heap = [op |-> "init", acted |-> NoneVal, creates |-> 0,
                  dicts |-> <<initial_variables>>, initial_variables |-> 1,
                  sessions |-> <<>>]
    /\ hooks = NoHooks
    /\ agent = NoAgent
    /\ machine = NoMachine

UnchangedButHeap ==
    UNCHANGED <<flow, node_executor, function_registry, vad_enabled, session, pc, pending,
                last, err_run, cascade, turns, vflow, verrors, tr, vad, vlog, hooks, agent, machine>>

\* FlowEngine.create_session(session_id, initial_variables)
CreateSessionIn(s, initial_variables) ==
    /\ heap.creates < MaxCreates
    /\ heap' = [Marked(create_session(heap, s, initial_variables), "create_session", s)
                   EXCEPT !.creates = @ + 1]
    /\ UnchangedButHeap

\* a turn or the host sets a variable of session s
StoreSet(s, name, value, source) ==
    /\ s \in DOMAIN heap.sessions
    /\ Len(heap.sessions[s].history) < MaxHistory
    /\ LET r == set(heap, heap.sessions[s], name, value, source)
       IN heap' = Marked([r.heap EXCEPT !.sessions[s] = r.store], "set", s)
    /\ UnchangedButHeap

\* the host deletes a variable of session s
StoreDelete(s, name) ==
    /\ s \in DOMAIN heap.sessions
    /\ Len(heap.sessions[s].history) < MaxHistory
    /\ LET r == delete(heap, heap.sessions[s], name)
       IN heap' = Marked([r.heap EXCEPT !.sessions[s] = r.store], "delete", s)
    /\ UnchangedButHeap

\* the host clears the store of session s
StoreClear(s) ==
    /\ s \in DOMAIN heap.sessions
    /\ LET r == store_clear(heap, heap.sessions[s])
       IN heap' = Marked([r.heap EXCEPT !.sessions[s] = r.store], "clear", s)
    /\ UnchangedButHeap

SpecSessions == InitSessions /\ [][
    \/ \E s \in SessionIds, initial_variables \in {<<>>, store_set(<<>>, "name", "Ann")} :
          CreateSessionIn(s, initial_variables)
    \/ \E s \in SessionIds, name \in StoreNames, value \in {"Sam", "Ann"},
          source \in {"greet"} : StoreSet(s, name, value, source)
    \/ \E s \in SessionIds, name \in StoreNames : StoreDelete(s, name)
    \/ \E s \in SessionIds : StoreClear(s)
    ]_vars

\* C20: an operation on one session (creating it, a set, a delete or a clear
\* in it) leaves the variables and the change history of every other session
\* as they were, and leaves the initial variables the flow configures as they
\* were.
C20_SessionsShareNothing ==
    [][/\ \A t \in DOMAIN heap.sessions :
             t # heap'.acted
                => /\ t \in DOMAIN heap'.sessions
                   /\ StoreView(heap', t) = StoreView(heap, t)
       /\ InitialVariables(heap') = InitialVariables(heap)]_vars

C20_Witness ==
    /\ heap.op = "set" /\ heap.acted = "s1"
    /\ "s2" \in DOMAIN heap.sessions
    /\ StoreView(heap, "s1").variables = store_set(<<>>, "name", "Ann")
    /\ StoreView(heap, "s2") = [variables |-> store_set(<<>>, "name", "Sam"),
                                history |-> <<>>]
    /\ InitialVariables(heap) = store_set(<<>>, "name", "Sam")

-----------------------------------------------------------------------------
(* Audio frames of several sessions (engine.py process_audio_frame) *)

AudioSessions == {"A", "B"}

\* FlowEngine.process_audio_frame once VAD is enabled: the frame goes through
\* self.vad_processor, the state argument is not used; the call returns None
\* (returned FALSE) unless the utterance is complete with audio in it
process_audio_frame(v, is_speech, frame_duration_ms) ==
    LET u == update_state(v, is_speech, frame_duration_ms)
        heard == /\ u.result.is_speech_complete
                 /\ u.result.audio_data.from < u.result.audio_data.to
    IN [vad |-> u.vad,
        result |-> [returned |-> heard,
                    audio_data |-> IF heard THEN u.result.audio_data ELSE NoAudio,
                    speech_duration_ms |->
                        IF heard THEN u.result.speech_duration_ms ELSE 0]]

\* enable_vad has made the engine's one VADProcessor; alone[s] is a processor
\* that is fed the frames of session s and no others
InitAudio ==
    /\ flow = NoFlow
    /\ node_executor = FALSE
    /\ function_registry = {}
    /\ vad_enabled = TRUE
    /\ session = NoSession
    /\ pc = [t \in Callers |-> "idle"]
    /\ pending = [t \in Callers |-> Idle]
    /\ last = Last("enable_vad", "ok", NoResult, FALSE, FALSE, 0)
    /\ err_run = 0
    /\ cascade = 0
    /\ turns = 0
    /\ vflow = NoFlow
    /\ verrors = NotValidated
    /\ tr = NoCall
    /\ vad = NewVad
    /\ vlog = [op |-> "enable_vad", session |-> NoneVal, fed |-> 0,
               alone |-> [s \in AudioSessions |-> NewVad],
               result |-> process_audio_frame(NewVad, FALSE, 0).result,
               alone_result |-> process_audio_frame(NewVad, FALSE, 0).result]
    /\ heap = NoHeap
    /\ hooks = NoHooks
    /\ agent = NoAgent
    /\ machine = NoMachine

\* FlowEngine.process_audio_frame(state of session s, frame)
ProcessAudioFrameIn(s, is_speech) ==
    /\ vad_enabled
    /\ vlog.fed < MaxAudioFrames
    /\ LET r == process_audio_frame(vad, is_speech, config.frame_duration_ms)
           a == process_audio_frame(vlog.alone[s], is_speech, config.frame_duration_ms)
       IN /\ vad' = r.vad
          /\ vlog' = [vlog EXCEPT !.op = "process_audio_frame", !.session = s,
                                  !.fed = @ + 1, !.alone[s] = a.vad,
                                  !.result = r.result, !.alone_result = a.result]
    /\ UNCHANGED <<flow, node_executor, function_registry, vad_enabled, session, pc,
                   pending, last, err_run, cascade, turns, vflow, verrors, tr, heap, hooks, agent, machine>>

SpecAudio ==
    InitAudio /\ [][\E s \in AudioSessions, is_speech \in BOOLEAN :
                        ProcessAudioFrameIn(s, is_speech)]_vars

\* C21: what process_audio_frame returns for a frame of a session is what a
\* processor fed the frames of that session alone returns for it, whatever
\* frames of other sessions were processed in between.
C21_AudioIsolatedPerSession ==
    vlog.op = "process_audio_frame" => vlog.result = vlog.alone_result

\* C22: with both hooks registered, a step of start or process_input that
\* changes the session's current_node_id calls on_state_change once for the
\* new node, and a step that gives a non-empty response text calls on_response
\* with it.
C22_HooksOnEveryTransition ==
    [][/\ (/\ session # NoSession /\ session' # NoSession
           /\ session'.current_node_id # session.current_node_id)
          => Cardinality({ i \in DOMAIN hooks'.calls :
                 hooks'.calls[i] = HookCall("on_state_change", NoneText,
                                            session'.current_node_id) }) = 1
       /\ (/\ last'.op \in {"start", "process_input"}
           /\ last'.outcome \in {"ok", "await"}
           /\ Truthy(last'.result.response_text))
          => \E i \in DOMAIN hooks'.calls :
                hooks'.calls[i] = HookCall("on_response", last'.result.response_text,
                                           NoneVal)]_vars

\* C23: a step of start or process_input in which a hook raised ends as the
\* same step with hooks that succeed: no exception reaches the host, and the
\* session (current node, history, retry counter, completion flag) and what is
\* returned are those _handle_node_result computes without regard to hooks.
C23_HookFailureHarmless ==
    [][(hooks'.raised /\ last'.op \in {"start", "process_input"})
       => LET s == [session EXCEPT !.variables = session'.variables]
              r == last'.result
              h == handle_node_result(flow, s, r)
          IN /\ last'.outcome \in {"ok", "await"}
             /\ last'.op = "start" => session' = record_response(s, r)
             /\ last'.op = "process_input"
                   => /\ session' = h.session
                      /\ last'.transitioned = h.transitioned
                      /\ last'.completed = h.completed
                      /\ pending'[1].node = h.next
                      /\ (last'.outcome = "await") = (h.next # NoneVal)]_vars

C23_Witness ==
    /\ hooks.raised /\ Len(hooks.calls) = 2
    /\ last.op = "process_input" /\ last.outcome = "await" /\ last.transitioned
    /\ session.current_node_id = last.result.next_node_id

-----------------------------------------------------------------------------
(* Playback and barge-in of the voice agent (main_stage3.py) *)

\* the agent once initialize has returned and the audio tracks in Streams are
\* subscribed: one process_audio_stream task per track, each at its
\* `async for` ("recv") or inside say ("say"), with the frames that have
\* arrived on its track and are not yet taken; a frame is
\* [energy, during_playback]. The flow allows interruptions (schema.py 185).
\*   left    per task, the output chunks its say has yet to send
\*   late    output chunks sent while a frame with speech energy that arrived
\*           during playback was waiting
\*   op      the latest step
Streams == {1, 2}

InitBarge ==
    /\ flow = NoFlow
    /\ node_executor = FALSE
    /\ function_registry = {}
    /\ vad_enabled = TRUE
    /\ session = NoSession
    /\ pc = [t \in Callers |-> "idle"]
    /\ pending = [t \in Callers |-> Idle]
    /\ last = Last("init", "ok", NoResult, FALSE, FALSE, 0)
    /\ err_run = 0
    /\ cascade = 0
    /\ turns = 0
    /\ vflow = NoFlow
    /\ verrors = NotValidated
    /\ tr = NoCall
    /\ vad = NewVad
    /\ vlog = NoVad
    /\ heap = NoHeap
    /\ hooks = NoHooks
    /\ agent = [is_speaking |-> FALSE, task |-> [t \in Streams |-> "recv"],
                inbox |-> [t \in Streams |-> <<>>], left |-> [t \in Streams |-> 0],
                arrived |-> 0, late |-> 0, op |-> "initialize"]
    /\ machine = NoMachine

UnchangedButAgent ==
    UNCHANGED <<flow, node_executor, function_registry, vad_enabled, session, pc, pending,
                last, err_run, cascade, turns, vflow, verrors, tr, vlog, heap, hooks, machine>>

\* a frame of the user's audio arrives on track t (rtc.AudioStream)
FrameArrives(t, energy) ==
    /\ agent.arrived < MaxArrivals
    /\ agent' = [agent EXCEPT
                   !.inbox[t] = Append(@, [energy |-> energy,
                                           during_playback |-> agent.is_speaking]),
                   !.arrived = @ + 1, !.op = "frame"]
    /\ UNCHANGED vad
    /\ UnchangedButAgent

\* process_audio_stream takes the next frame of its track and awaits
\* _process_audio_frame_with_vad: the barge-in check with _stop_speaking
\* (lines 279-284, 308-316), the VAD (287), and for a complete utterance
\* _process_complete_utterance, whose say (382-390) starts playback of chunks
\* output chunks, or none when there is nothing to say
ProcessAudioFrameWithVad(t, chunks) ==
    /\ agent.task[t] = "recv"
    /\ agent.inbox[t] # <<>>
    /\ LET frame == Head(agent.inbox[t])
           barge_in == agent.is_speaking /\ frame.energy
           v == IF barge_in THEN reset(vad) ELSE vad
           r == process_audio_frame(v, frame.energy, config.frame_duration_ms)
           says == r.result.returned /\ chunks > 0
       IN /\ vad' = r.vad
          /\ agent' = [agent EXCEPT
                !.inbox[t] = Tail(@),
                !.is_speaking = IF says THEN TRUE
                                ELSE IF barge_in THEN FALSE ELSE @,
                !.task[t] = IF says THEN "say" ELSE "recv",
                !.left[t] = IF says THEN chunks ELSE @,
                !.op = IF barge_in THEN "barge_in" ELSE "process_frame"]
    /\ UnchangedButAgent

\* say, lines 402-420: one round of the chunk loop of the task that is inside
\* say; a task that has a frame to take runs before the send completes
SayChunk(t) ==
    /\ agent.task[t] = "say"
    /\ \A u \in Streams : agent.task[u] = "recv" => agent.inbox[u] = <<>>
    /\ IF ~agent.is_speaking \/ agent.left[t] = 0
       THEN agent' = [agent EXCEPT !.is_speaking = FALSE, !.task[t] = "recv",
                                   !.left[t] = 0, !.op = "say_ends"]
       ELSE agent' = [agent EXCEPT
                !.left[t] = @ - 1,
                !.late = IF \E u \in Streams : \E i \in DOMAIN agent.inbox[u] :
                              /\ agent.inbox[u][i].energy
                              /\ agent.inbox[u][i].during_playback
                         THEN @ + 1 ELSE @,
                !.op = "chunk"]
    /\ UNCHANGED vad
    /\ UnchangedButAgent

SpecBarge ==
    InitBarge /\ [][\/ \E t \in Streams, energy \in BOOLEAN : FrameArrives(t, energy)
                    \/ \E t \in Streams, chunks \in 0..MaxChunks :
                          ProcessAudioFrameWithVad(t, chunks)
                    \/ \E t \in Streams : SayChunk(t)]_vars

\* C24: no output chunk is sent while a frame with speech energy that arrived
\* during playback waits to be processed; and right after a barge-in the VAD
\* is in a phase with consistent counters and no session variable was touched.
C24_BargeInStopsPlayback ==
    /\ agent.late = 0
    /\ agent.op = "barge_in"
          => /\ vad.state \in {"silence", "speaking"}
             /\ vad.state = "silence" => vad.speech_frames = 0 /\ vad.silence_frames = 0
             /\ vad.state = "speaking" => vad.speech_frames = 1 /\ vad.silence_frames = 0
             /\ session = NoSession

\* C25: an operation on a store keeps every VariableChange recorded so far, in
\* order, at the front of the history, and a set appends exactly one entry
\* that holds the value the variable had and the value it was given.
C25_HistoryAppendOnly ==
    [][\A t \in DOMAIN heap.sessions :
          \/ heap'.op = "create_session" /\ heap'.acted = t
          \/ LET old == heap.sessions[t].history
                 new == heap'.sessions[t].history
                 e == new[Len(new)]
             IN /\ Len(old) <= Len(new)
                /\ SubSeq(new, 1, Len(old)) = old
                /\ (heap'.op = "set" /\ heap'.acted = t)
                      => /\ Len(new) = Len(old) + 1
                         /\ e.old_value = dict_get(StoreView(heap, t).variables,
                                                   e.variable_name)
                         /\ e.new_value = StoreView(heap', t).variables[e.variable_name]]_vars

-----------------------------------------------------------------------------
(* Equations (dynamic_variables.py evaluate_equation) *)

\* the equations evaluated: `A AND B OR C` and `A OR B AND C` over atomic
\* conditions, the empty and the blank equation, and `L CONTAINS R` and
\* `L NOT CONTAINS R` over literal operands
GenEquations ==
    LET Atoms == {<<"x">>, <<"'", "'">>, <<"{{name}}", " ", "exists">>}
        Operands == {<<"a">>, <<"b">>, <<"a", "b">>}
        Eq(form, a, b, c, equation) ==
            [form |-> form, a |-> a, b |-> b, c |-> c, equation |-> equation]
    IN { Eq("and_or", a, b, c, a \o <<" ", "AND", " ">> \o b \o <<" ", "OR", " ">> \o c) :
            a \in Atoms, b \in Atoms, c \in Atoms }
       \cup
       { Eq("or_and", a, b, c, a \o <<" ", "OR", " ">> \o b \o <<" ", "AND", " ">> \o c) :
            a \in Atoms, b \in Atoms, c \in Atoms }
       \cup
       { Eq("blank", <<>>, <<>>, <<>>, e) : e \in {<<>>, <<" ">>, <<" ", " ">>} }
       \cup
       { Eq("contains", l, r, <<>>, l \o <<" ", "CONTAINS", " ">> \o r) :
            l \in Operands, r \in Operands }
       \cup
       { Eq("not_contains", l, r, <<>>, l \o <<" ", "NOT", " ", "CONTAINS", " ">> \o r) :
            l \in Operands, r \in Operands }

InitEquations ==
    /\ flow = NoFlow
    /\ node_executor = FALSE
    /\ function_registry = {}
    /\ vad_enabled = FALSE
    /\ session = NoSession
    /\ pc = [t \in Callers |-> "idle"]
    /\ pending = [t \in Callers |-> Idle]
    /\ last = Last("init", "ok", NoResult, FALSE, FALSE, 0)
    /\ err_run = 0
    /\ cascade = 0
    /\ turns = 0
    /\ vflow = NoFlow
    /\ verrors = NotValidated
    /\ \E q \in GenEquations, variables \in GenVariables :
          tr = [called |-> FALSE, q |-> q, variables |-> variables, value |-> FALSE]
    /\ vad = NoVad
    /\ vlog = NoVad
    /\ heap = NoHeap
    /\ hooks = NoHooks
    /\ agent = NoAgent
    /\ machine = NoMachine

\* one call of evaluate_equation
RunEquation ==
    /\ ~tr.called
    /\ tr' = [tr EXCEPT !.called = TRUE,
                        !.value = evaluate_equation(tr.variables, tr.q.equation)]
    /\ UNCHANGED <<flow, node_executor, function_registry, vad_enabled, session, pc,
                   pending, last, err_run, cascade, turns, vflow, verrors, vad, vlog,
                   heap, hooks, agent, machine>>

SpecEquations == InitEquations /\ [][RunEquation]_vars

\* C26: `A AND B OR C` evaluates to (A and B) or C, `A OR B AND C` evaluates to
\* A or (B and C), and the empty and the blank equation evaluate to true.
C26_OrBeforeAnd ==
    tr.called
    => LET A == evaluate_equation(tr.variables, tr.q.a)
           B == evaluate_equation(tr.variables, tr.q.b)
           C == evaluate_equation(tr.variables, tr.q.c)
       IN /\ tr.q.form = "and_or" => tr.value = ((A /\ B) \/ C)
          /\ tr.q.form = "or_and" => tr.value = (A \/ (B /\ C))
          /\ tr.q.form = "blank" => tr.value = TRUE

\* C27: `L NOT CONTAINS R` is true exactly when L does not contain R: it is
\* the negation of `L CONTAINS R` for the same operands.
C27_NotContainsNegatesContains ==
    (tr.called /\ tr.q.form = "not_contains")
    => /\ tr.value = (find(tr.q.a, tr.q.b) = 0)
       /\ tr.value = ~evaluate_equation(tr.variables,
                                        tr.q.a \o <<" ", "CONTAINS", " ">> \o tr.q.b)

-----------------------------------------------------------------------------
(* Documents and flows (schema.py load_flow_from_dict, flow_to_dict) *)

MaxDocNodes == 2

\* A document is a dict: a function from the keys it holds to their values; a
\* JSON null is None. A loaded flow is a FlowDefinition object whose nodes
\* dict is the sequence of its values in insertion order; a node object
\* carries its class and the fields of that class; a float is written as its
\* literal. The engine model above reads the fields of these objects that
\* the engine uses.
load_flow_from_dict(data) ==
    LET get(d, key, default) == IF key \in DOMAIN d THEN d[key] ELSE default
        \* parse_node_from_dict, lines 248-323
        parse_condition(c) ==
            [type |-> get(c, "type", "prompt"),
             condition |-> get(c, "condition", ""),
             description |-> get(c, "description", NoneVal)]
        parse_edge(e) ==
            LET conds == get(e, "conditions", <<>>)
            IN [id |-> get(e, "id", ""),
                target_node_id |-> get(e, "target_node_id", ""),
                conditions |-> [i \in DOMAIN conds |-> parse_condition(conds[i])],
                is_default |-> get(e, "is_default", FALSE),
                priority |-> get(e, "priority", 0)]
        update(d, more) ==
            [k \in DOMAIN d \cup DOMAIN more |->
                IF k \in DOMAIN more THEN more[k] ELSE d[k]]
        parse_node_from_dict(d) ==
            LET node_type == get(d, "type", "conversation")
                es == get(d, "edges", <<>>)
                base_fields ==
                    [id |-> get(d, "id", ""), type |-> node_type,
                     name |-> get(d, "name", ""),
                     description |-> get(d, "description", NoneVal),
                     edges |-> [i \in DOMAIN es |-> parse_edge(es[i])],
                     llm_model |-> get(d, "llm_model", NoneVal),
                     temperature |-> get(d, "temperature", NoneVal)]
            IN CASE node_type = "conversation" ->
                      update(base_fields,
                        [class |-> "ConversationNode",
                         instruction |-> get(d, "instruction", ""),
                         extract_variables |-> get(d, "extract_variables", <<>>),
                         response_template |-> get(d, "response_template", NoneVal),
                         auto_respond |-> get(d, "auto_respond", TRUE),
                         examples |-> get(d, "examples", <<>>)])
                 [] node_type = "function" ->
                      update(base_fields,
                        [class |-> "FunctionNode",
                         function_name |-> get(d, "function_name", ""),
                         parameters |-> get(d, "parameters", <<>>),
                         result_variable |-> get(d, "result_variable", NoneVal),
                         pending_message |-> get(d, "pending_message", NoneVal),
                         success_message |-> get(d, "success_message", NoneVal),
                         failure_message |-> get(d, "failure_message", NoneVal)])
                 [] node_type = "logic_split" ->
                      update(base_fields, [class |-> "LogicSplitNode"])
                 [] node_type = "end" ->
                      update(base_fields,
                        [class |-> "EndNode",
                         message |-> get(d, "message",
                                         "Thank you for using our service. Goodbye!"),
                         end_reason |-> get(d, "end_reason", "completed")])
                 [] node_type = "transfer" ->
                      update(base_fields,
                        [class |-> "TransferNode",
                         message |-> get(d, "message",
                                         "Let me connect you with a human agent."),
                         destination |-> get(d, "destination", NoneVal),
                         transfer_reason |-> get(d, "transfer_reason", "user_request")])
                 [] node_type = "extract_variable" ->
                      update(base_fields,
                        [class |-> "ExtractVariableNode",
                         variables |-> get(d, "variables", <<>>),
                         extraction_prompt |-> get(d, "extraction_prompt", NoneVal)])
        global_data == get(data, "global_settings", <<>>)
        global_settings ==
            [system_prompt |-> get(global_data, "system_prompt",
                                   "You are a helpful voice assistant."),
             llm_model |-> get(global_data, "llm_model", "gemini-1.5-flash"),
             temperature |-> get(global_data, "temperature", "0.7"),
             max_tokens |-> get(global_data, "max_tokens", 500),
             voice |-> get(global_data, "voice", "default"),
             language |-> get(global_data, "language", "en"),
             max_retries |-> get(global_data, "max_retries", 3),
             fallback_node_id |-> get(global_data, "fallback_node_id", NoneVal),
             vad_enabled |-> get(global_data, "vad_enabled", TRUE),
             silence_threshold_ms |-> get(global_data, "silence_threshold_ms", 500),
             min_speech_duration_ms |-> get(global_data, "min_speech_duration_ms", 250),
             allow_interruptions |-> get(global_data, "allow_interruptions", TRUE),
             initial_variables |-> get(global_data, "initial_variables", <<>>)]
        docs == get(data, "nodes", <<>>)
        parsed == [i \in DOMAIN docs |-> parse_node_from_dict(docs[i])]
        \* nodes[node.id] = node: a new key is appended, the value of a key
        \* that is present is replaced where it stands
        first(i) == \A j \in 1..(i - 1) : parsed[j].id # parsed[i].id
        newest(i) ==
            parsed[CHOOSE j \in DOMAIN parsed :
                      /\ parsed[j].id = parsed[i].id
                      /\ \A k \in (j + 1)..Len(parsed) : parsed[k].id # parsed[i].id]
        keys == SelectSeq([i \in DOMAIN docs |-> i], first)
    IN [id |-> get(data, "id", ""), name |-> get(data, "name", ""),
        version |-> get(data, "version", "1.0.0"),
        description |-> get(data, "description", NoneVal),
        global_settings |-> global_settings,
        start_node_id |-> get(data, "start_node_id", ""),
        nodes |-> [i \in DOMAIN keys |-> newest(keys[i])],
        created_at |-> get(data, "created_at", NoneVal),
        updated_at |-> get(data, "updated_at", NoneVal)]

\* flow_to_dict with edges written without their priority
flow_to_dict_without_priority(f) ==
    LET gs == f.global_settings
        global_settings ==
            [system_prompt |-> gs.system_prompt, llm_model |-> gs.llm_model,
             temperature |-> gs.temperature, max_tokens |-> gs.max_tokens,
             voice |-> gs.voice, language |-> gs.language,
             max_retries |-> gs.max_retries,
             fallback_node_id |-> gs.fallback_node_id,
             vad_enabled |-> gs.vad_enabled,
             silence_threshold_ms |-> gs.silence_threshold_ms,
             min_speech_duration_ms |-> gs.min_speech_duration_ms,
             allow_interruptions |-> gs.allow_interruptions,
             initial_variables |-> gs.initial_variables]
        cond_dict(cond) ==
            [type |-> cond.type, condition |-> cond.condition,
             description |-> cond.description]
        edge_dict(edge) ==
            [id |-> edge.id, target_node_id |-> edge.target_node_id,
             conditions |-> [i \in DOMAIN edge.conditions |->
                                cond_dict(edge.conditions[i])],
             is_default |-> edge.is_default]
        node_dict(node) ==
            [id |-> node.id, type |-> node.type, name |-> node.name,
             description |-> node.description,
             edges |-> [i \in DOMAIN node.edges |-> edge_dict(node.edges[i])],
             llm_model |-> node.llm_model, temperature |-> node.temperature]
        \* node_dict.update({...})
        update(d, more) ==
            [k \in DOMAIN d \cup DOMAIN more |->
                IF k \in DOMAIN more THEN more[k] ELSE d[k]]
        specific(node) ==
            CASE node.class = "ConversationNode" ->
                   [instruction |-> node.instruction,
                    extract_variables |-> node.extract_variables,
                    response_template |-> node.response_template,
                    auto_respond |-> node.auto_respond,
                    examples |-> node.examples]
              [] node.class = "FunctionNode" ->
                   [function_name |-> node.function_name,
                    parameters |-> node.parameters,
                    result_variable |-> node.result_variable,
                    pending_message |-> node.pending_message,
                    success_message |-> node.success_message,
                    failure_message |-> node.failure_message]
              [] node.class = "EndNode" ->
                   [message |-> node.message, end_reason |-> node.end_reason]
              [] node.class = "TransferNode" ->
                   [message |-> node.message, destination |-> node.destination,
                    transfer_reason |-> node.transfer_reason]
              [] node.class = "ExtractVariableNode" ->
                   [variables |-> node.variables,
                    extraction_prompt |-> node.extraction_prompt]
              [] OTHER -> <<>>
    IN [id |-> f.id, name |-> f.name, version |-> f.version,
        description |-> f.description, global_settings |-> global_settings,
        start_node_id |-> f.start_node_id,
        nodes |-> [i \in DOMAIN f.nodes |->
                      update(node_dict(f.nodes[i]), specific(f.nodes[i]))],
        created_at |-> f.created_at, updated_at |-> f.updated_at]

flow_to_dict(f) ==
    LET gs == f.global_settings
        global_settings ==
            [system_prompt |-> gs.system_prompt, llm_model |-> gs.llm_model,
             temperature |-> gs.temperature, max_tokens |-> gs.max_tokens,
             voice |-> gs.voice, language |-> gs.language,
             max_retries |-> gs.max_retries,
             fallback_node_id |-> gs.fallback_node_id,
             vad_enabled |-> gs.vad_enabled,
             silence_threshold_ms |-> gs.silence_threshold_ms,
             min_speech_duration_ms |-> gs.min_speech_duration_ms,
             allow_interruptions |-> gs.allow_interruptions,
             initial_variables |-> gs.initial_variables]
        cond_dict(cond) ==
            [type |-> cond.type, condition |-> cond.condition,
             description |-> cond.description]
        edge_dict(edge) ==
            [id |-> edge.id, target_node_id |-> edge.target_node_id,
             conditions |-> [i \in DOMAIN edge.conditions |->
                                cond_dict(edge.conditions[i])],
             is_default |-> edge.is_default, priority |-> edge.priority]
        node_dict(node) ==
            [id |-> node.id, type |-> node.type, name |-> node.name,
             description |-> node.description,
             edges |-> [i \in DOMAIN node.edges |-> edge_dict(node.edges[i])],
             llm_model |-> node.llm_model, temperature |-> node.temperature]
        \* node_dict.update({...})
        update(d, more) ==
            [k \in DOMAIN d \cup DOMAIN more |->
                IF k \in DOMAIN more THEN more[k] ELSE d[k]]
        specific(node) ==
            CASE node.class = "ConversationNode" ->
                   [instruction |-> node.instruction,
                    extract_variables |-> node.extract_variables,
                    response_template |-> node.response_template,
                    auto_respond |-> node.auto_respond,
                    examples |-> node.examples]
              [] node.class = "FunctionNode" ->
                   [function_name |-> node.function_name,
                    parameters |-> node.parameters,
                    result_variable |-> node.result_variable,
                    pending_message |-> node.pending_message,
                    success_message |-> node.success_message,
                    failure_message |-> node.failure_message]
              [] node.class = "EndNode" ->
                   [message |-> node.message, end_reason |-> node.end_reason]
              [] node.class = "TransferNode" ->
                   [message |-> node.message, destination |-> node.destination,
                    transfer_reason |-> node.transfer_reason]
              [] node.class = "ExtractVariableNode" ->
                   [variables |-> node.variables,
                    extraction_prompt |-> node.extraction_prompt]
              [] OTHER -> <<>>
    IN [id |-> f.id, name |-> f.name, version |-> f.version,
        description |-> f.description, global_settings |-> global_settings,
        start_node_id |-> f.start_node_id,
        nodes |-> [i \in DOMAIN f.nodes |->
                      update(node_dict(f.nodes[i]), specific(f.nodes[i]))],
        created_at |-> f.created_at, updated_at |-> f.updated_at]

\* the documents loaded: up to MaxDocNodes node documents, of every type
\* complete and with null for the optional keys, and some holding their id
\* and type only or no type
InitRoundTrip ==
    LET Restrict(d, K) == [k \in K |-> d[k]]
        EdgeDocs ==
            <<[id |-> "e1", target_node_id |-> "b",
               conditions |-> <<[type |-> "equation", condition |-> "{{name}} exists",
                                 description |-> "named"],
                                [condition |-> "the user wants to stop"]>>,
               is_default |-> TRUE, priority |-> 2],
              [id |-> "e2"]>>
        Complete(type, id) ==
            [id |-> id, type |-> type, name |-> "node", description |-> "a node",
             edges |-> EdgeDocs, llm_model |-> "m", temperature |-> "0.2",
             instruction |-> "ask", extract_variables |-> <<"name">>,
             response_template |-> "Hello {{name}}", auto_respond |-> FALSE,
             examples |-> <<[user |-> "hi"]>>,
             function_name |-> "create_calendar_event",
             parameters |-> [title |-> "{{name}}"], result_variable |-> "booking",
             pending_message |-> "wait", success_message |-> "done",
             failure_message |-> "failed {{name}}",
             message |-> "bye", end_reason |-> "user_left",
             destination |-> "queue", transfer_reason |-> "escalation",
             variables |-> <<[name |-> "name"]>>, extraction_prompt |-> "extract"]
        Null(type, id) ==
            [id |-> id, type |-> type, name |-> "node", description |-> NoneVal,
             llm_model |-> NoneVal, temperature |-> NoneVal,
             response_template |-> NoneVal, result_variable |-> NoneVal,
             pending_message |-> NoneVal, success_message |-> NoneVal,
             failure_message |-> NoneVal, message |-> NoneVal,
             destination |-> NoneVal, extraction_prompt |-> NoneVal]
        Types == {"conversation", "function", "logic_split", "end", "transfer",
                  "extract_variable"}
        NodeDocs ==
            { Complete(type, "a") : type \in Types }
            \cup { Null(type, "b") : type \in Types }
            \cup { Restrict(Complete(type, "b"), {"id", "type"}) :
                      type \in {"end", "transfer"} }
            \cup { Restrict(Complete("end", "a"),
                            DOMAIN Complete("end", "a") \ {"type"}) }
        Settings ==
            { <<>>, [max_retries |-> 2, fallback_node_id |-> "b", vad_enabled |-> FALSE,
                     initial_variables |-> [name |-> "Ann"]] }
        FlowDocs ==
            { [id |-> "doc", nodes |-> nodes] : nodes \in UNION { [1..n -> NodeDocs] : n \in 0..MaxDocNodes } }
            \cup
            { [id |-> "doc", name |-> "flow", start_node_id |-> start,
               global_settings |-> g, nodes |-> nodes, created_at |-> NoneVal] :
                 start \in {"a", "zz"}, g \in Settings,
                 nodes \in UNION { [1..n -> NodeDocs] : n \in 0..MaxDocNodes } }
    IN /\ flow = NoFlow
       /\ node_executor = FALSE
       /\ function_registry = {}
       /\ vad_enabled = FALSE
       /\ session = NoSession
       /\ pc = [t \in Callers |-> "idle"]
       /\ pending = [t \in Callers |-> Idle]
       /\ last = Last("init", "ok", NoResult, FALSE, FALSE, 0)
       /\ err_run = 0
       /\ cascade = 0
       /\ turns = 0
       /\ vflow = NoFlow
       /\ verrors = NotValidated
       /\ \E data \in FlowDocs :
             tr = [called |-> FALSE, data |-> data,
                   flow |-> load_flow_from_dict(data), again |-> NoFlow]
       /\ vad = NoVad
       /\ vlog = NoVad
       /\ heap = NoHeap
       /\ hooks = NoHooks
       /\ agent = NoAgent
       /\ machine = NoMachine

\* load_flow_from_dict(flow_to_dict(f)) for the loaded flow f
RoundTrip ==
    /\ ~tr.called
    /\ tr' = [tr EXCEPT !.called = TRUE,
                        !.again = load_flow_from_dict(flow_to_dict(tr.flow))]
    /\ UNCHANGED <<flow, node_executor, function_registry, vad_enabled, session, pc,
                   pending, last, err_run, cascade, turns, vflow, verrors, vad, vlog,
                   heap, hooks, agent, machine>>

SpecRoundTrip == InitRoundTrip /\ [][RoundTrip]_vars

\* C28: the flow reloaded from the document written for a loaded flow has the
\* same start node and the same node ids, and every node has the same class,
\* type, fields and edges (id, target, conditions in order, default flag,
\* priority) as before.
C28_RoundTrip ==
    tr.called
    => LET Ids(f) == { f.nodes[i].id : i \in DOMAIN f.nodes }
           NodeOf(f, id) == f.nodes[CHOOSE i \in DOMAIN f.nodes : f.nodes[i].id = id]
       IN /\ tr.again.start_node_id = tr.flow.start_node_id
          /\ Ids(tr.again) = Ids(tr.flow)
          /\ \A id \in Ids(tr.flow) : NodeOf(tr.again, id) = NodeOf(tr.flow, id)

C28_Witness ==
    /\ tr.called
    /\ Len(tr.flow.nodes) = 2
    /\ tr.flow.nodes[1].class = "FunctionNode"
    /\ tr.flow.nodes[1].failure_message = NoneVal
    /\ tr.flow.nodes[2].class = "EndNode"
    /\ Len(tr.flow.nodes[2].edges) = 2
    /\ tr.flow.nodes[2].edges[1].priority = 2
    /\ Len(tr.flow.nodes[2].edges[1].conditions) = 2
    /\ tr.flow.nodes[2].edges[2].target_node_id = ""

-----------------------------------------------------------------------------
(* Missing nodes and failing functions *)

\* C29: a call of start or process_input that finds the session's current
\* node id missing from the flow, and a turn that moves the session to a node
\* id missing from the flow, returns an error-kind NodeResult and raises nothing.
C29_MissingNodeIsErrorResult ==
    [][ /\ ( /\ session # NoSession /\ flow # NoFlow /\ node_executor
             /\ turns' = turns + 1
             /\ session.current_node_id \notin DOMAIN flow.nodes
             /\ \/ last'.op = "start"
                \/ last'.op = "process_input" /\ ~session.is_complete )
           => (last'.outcome = "ok" /\ last'.result.result_type = "error")
        /\ ( /\ session # NoSession /\ flow # NoFlow
             /\ \E t \in Callers : pc[t] = "exec" /\ pc'[t] = "idle"
             /\ last'.transitioned
             /\ session'.current_node_id \notin DOMAIN flow.nodes )
           => (last'.outcome = "ok" /\ last'.result.result_type = "error") ]_vars

\* C30: when a turn or start executes a Function node whose callable is not
\* registered or raises, nothing is raised, the result carries an error
\* indication and a failure message, it names no next node, and the session
\* is not moved along an edge of the node.
C30_FunctionFailureContained ==
    [][ \A id \in (IF flow = NoFlow THEN {} ELSE DOMAIN flow.nodes) :
          ( /\ flow.nodes[id].type = "function"
            /\ \/ pc[1] = "exec" /\ pending[1].node = id
               \/ /\ last'.op = "start" /\ last'.outcome = "ok"
                  /\ turns' = turns + 1 /\ session.current_node_id = id
            /\ \/ flow.nodes[id].function_name \notin function_registry
               \/ last'.result.error_message )
          => /\ last'.outcome \in {"ok", "await"}
             /\ last'.result.result_type = "error" \/ last'.result.error_message
             /\ Truthy(last'.result.response_text)
             /\ last'.result.next_node_id = NoneVal
             /\ ~last'.transitioned
             /\ session'.current_node_id
                  \in {session.current_node_id, flow.fallback_node_id} ]_vars

-----------------------------------------------------------------------------
(* VADProcessor: consecutive silence, reported duration, hooks, phases *)

\* C32: a speech frame fed while SPEAKING sets the consecutive-silence counter
\* to 0 and adds one to the speech-frame counter, and a frame declares the end
\* of speech only when it and the frames just before it, silence_frame_threshold
\* in all, were non-speech.
C32_EndNeedsConsecutiveSilence ==
    vlog.op = "process_frame"
    => /\ (vlog.before.state = "speaking" /\ vlog.result.is_speaking)
            => /\ vad.state = "speaking"
               /\ vad.silence_frames = 0
               /\ vad.speech_frames = vlog.before.speech_frames + 1
       /\ vlog.declared => vlog.quiet >= silence_frame_threshold

C32_Witness ==
    /\ vlog.op = "process_frame" /\ vlog.result.is_speech_complete
    /\ vlog.quiet = silence_frame_threshold
    /\ vlog.run = "X"
    /\ vlog.declared_frames > vlog.m

\* C33: a result with is_speech_complete carries as speech_duration_ms the
\* number of speech frames of the utterance times the configured frame
\* duration.
C33_DurationOfCompletedSpeech ==
    (vlog.op = "process_frame" /\ vlog.result.is_speech_complete)
    => vlog.result.speech_duration_ms = vlog.declared_frames * config.frame_duration_ms

\* C34: a frame calls on_speech_start exactly when it takes the processor from
\* SILENCE to SPEAKING and on_speech_end exactly when it returns an utterance
\* (never when it discards one); when on_speech_end is called, on_speech_start
\* has been called since the previous call of on_speech_end; and with a hook
\* that raises, the processor and the result are what they are with one that
\* does not.
C34_HookOrder ==
    [][ vlog'.op = "process_frame"
        => /\ vlog'.hook_start <=> (vad.state = "silence" /\ vad'.state = "speaking")
           /\ vlog'.started = vlog.started + (IF vlog'.hook_start THEN 1 ELSE 0)
           /\ vlog'.hook_end <=> vlog'.result.is_speech_complete
           /\ vlog'.ended = vlog.ended + (IF vlog'.hook_end THEN 1 ELSE 0)
           /\ (vlog'.declared /\ ~vlog'.result.is_speech_complete) => ~vlog'.hook_end
           /\ vlog'.hook_end => vlog.open
           /\ LET u == update_state(vad, vlog'.result.is_speaking, vlog.frame_ms)
              IN  vad' = u.vad /\ vlog'.result = u.result ]_vars

C34_Witness ==
    /\ vlog.op = "process_frame"
    /\ vlog.hook_end /\ vlog.warned
    /\ vlog.result.is_speech_complete
    /\ vlog.started = 2 /\ vlog.ended = 1
    /\ vad = NewVad

-----------------------------------------------------------------------------
(* Completed sessions and start *)

\* C36: once a session is complete it stays complete under every later call,
\* and process_input on it returns a result of kind end, awaits no node and
\* leaves the current node, the variables, the history, the retry counter and
\* the end reason of the session as they were.
C36_CompletedIsAbsorbing ==
    [][ (session # NoSession /\ session.is_complete)
        => /\ session'.is_complete
           /\ (last'.op = "process_input" /\ turns' = turns + 1)
                => /\ last'.outcome = "ok"
                   /\ last'.result.result_type = "end"
                   /\ session'.current_node_id = session.current_node_id
                   /\ session'.variables = session.variables
                   /\ session'.history = session.history
                   /\ session'.retry_count = session.retry_count
                   /\ session'.end_reason = session.end_reason
                   /\ pc' = pc /\ pending' = pending ]_vars

C36_Witness ==
    /\ session # NoSession /\ session.is_complete
    /\ last.op = "process_input" /\ last.outcome = "ok"
    /\ last.result.response_text = Text(<<"The conversation has ended.">>)
    /\ AllIdle

C38_StartAppliesNothing ==
    [][ (last'.op = "start" /\ turns' = turns + 1)
        => /\ session'.current_node_id = session.current_node_id
           /\ session'.retry_count = session.retry_count
           /\ session'.is_complete = session.is_complete
           /\ session'.end_reason = session.end_reason
           /\ \/ session'.history = session.history
              \/ /\ Len(session'.history) = Len(session.history) + 1
                 /\ SubSeq(session'.history, 1, Len(session.history)) = session.history
                 /\ session'.history[Len(session'.history)].role = "agent" ]_vars

C38_Witness ==
    /\ session # NoSession
    /\ last.op = "start" /\ last.outcome = "ok"
    /\ last.result.next_node_id # NoneVal
    /\ session.current_node_id # last.result.next_node_id
    /\ Len(session.history) = 1

-----------------------------------------------------------------------------
(* The legacy StateMachine (state_machine/state_machine.py, state.py,
   context.py): six ConversationState objects and the ConversationContext
   the host hands to every call *)

MaxMachineInputs == 7

\* ConversationState.__init__: self.max_retries = 3
max_retries == 3

\* handle_input of the state registered under `state`.  `outcome` is what the
\* user text gives: "found" (the name, date or time is extracted, the
\* confirmation is a yes, the text holds a restart keyword), "missing" (no
\* value: _extract_* returns {} also when the LLM call raises), or "raises"
\* (the handler itself raises: ConfirmationState calls
\* calendar_service.is_enabled() outside its try, line 258; TerminalState
\* calls user_text.lower() on whatever it is given, line 398).
\* context.history is kept as the number of turns, context.slots as the set
\* of filled slot names.
handle_input(state, context, outcome) ==
    LET user == [context EXCEPT !.history = @ + 1]
        said(c) == [c EXCEPT !.history = @ + 1]
        StateResponse(next_state, should_continue) ==
            [next_state |-> next_state, should_continue |-> should_continue]
        returns(next_state, should_continue, c) ==
            [raised |-> FALSE, response |-> StateResponse(next_state, should_continue),
             context |-> c]
        collect(slot, next_state) ==
            IF outcome = "found"
            THEN returns(next_state, TRUE,
                         [said(user) EXCEPT !.slots = @ \cup {slot}, !.retry_count = 0])
            ELSE LET c == [user EXCEPT !.retry_count = @ + 1]
                 IN  IF c.retry_count >= max_retries
                     THEN returns("fallback", FALSE, said(c))
                     ELSE returns(state, TRUE, said(c))
    IN  CASE state = "greeting" ->
               IF outcome = "found"
               THEN returns("collect_date", TRUE,
                            [said(user) EXCEPT !.slots = @ \cup {"name"}])
               ELSE returns("greeting", TRUE, said(user))
          [] state = "collect_date" -> collect("date", "collect_time")
          [] state = "collect_time" -> collect("time", "confirmation")
          [] state = "confirmation" ->
               IF outcome = "raises"
               THEN [raised |-> TRUE, response |-> NoneVal, context |-> user]
               ELSE IF outcome = "found"
               THEN returns("terminal", FALSE, said(user))
               ELSE returns("collect_date", TRUE,
                            [said(user) EXCEPT !.slots = @ \ {"date", "time"},
                                               !.retry_count = 0])
          [] state = "fallback" ->
               LET c == [user EXCEPT !.retry_count = @ + 1]
                   previous_state ==
                       IF c.current_state = NoneVal THEN "greeting" ELSE c.current_state
               IN  IF c.retry_count >= max_retries
                   THEN returns("terminal", FALSE, said(c))
                   ELSE returns(IF previous_state = "fallback" THEN "greeting"
                                ELSE previous_state, TRUE, said(c))
          [] OTHER ->
               IF outcome = "raises"
               THEN [raised |-> TRUE, response |-> NoneVal, context |-> context]
               ELSE IF outcome = "found"
               THEN returns("greeting", TRUE,
                            [context EXCEPT !.slots = {}, !.retry_count = 0])
               ELSE returns(NoneVal, FALSE, context)

transition_to_without_fallback(m, state_name) ==
    IF state_name \notin {"greeting", "collect_date", "collect_time", "confirmation",
                          "terminal"}
    THEN m
    ELSE [m EXCEPT !.current_state_name = state_name,
                   !.context.current_state = state_name]

\* StateMachine.transition_to: an unregistered name is refused
transition_to(m, state_name) ==
    IF state_name \notin {"greeting", "collect_date", "collect_time", "confirmation",
                          "fallback", "terminal"}
    THEN m
    ELSE [m EXCEPT !.current_state_name = state_name,
                   !.context.current_state = state_name]

\* StateMachine(llm_service) and a new ConversationContext.  `failures` counts
\* the inputs in a row, up to the latest one, that the current collecting state
\* could extract nothing from; `inputs` counts the calls of process_user_input.
InitMachine ==
    /\ flow = NoFlow
    /\ node_executor = FALSE
    /\ function_registry = {}
    /\ vad_enabled = FALSE
    /\ session = NoSession
    /\ pc = [t \in Callers |-> "idle"]
    /\ pending = [t \in Callers |-> Idle]
    /\ last = Last("init", "ok", NoResult, FALSE, FALSE, 0)
    /\ err_run = 0
    /\ cascade = 0
    /\ turns = 0
    /\ vflow = NoFlow
    /\ verrors = NotValidated
    /\ tr = NoCall
    /\ vad = NewVad
    /\ vlog = NoVad
    /\ heap = NoHeap
    /\ hooks = NoHooks
    /\ agent = NoAgent
    /\ machine = [current_state_name |-> "greeting",
                  context |-> [current_state |-> NoneVal, slots |-> {}, history |-> 0,
                               retry_count |-> 0],
                  op |-> "__init__", outcome |-> NoneVal, raised |-> FALSE,
                  response |-> NoneVal, failures |-> 0, inputs |-> 0]

\* StateMachine.reset_to_initial_state, which both hosts call once, on the new
\* context, before the first input (voice_agent.py, main_stage2.py)
ResetToInitialState ==
    /\ machine.inputs = 0
    /\ machine' = [machine EXCEPT !.current_state_name = "greeting",
                                  !.context.current_state = "greeting",
                                  !.context.retry_count = 0,
                                  !.op = "reset_to_initial_state"]
    /\ UNCHANGED <<flow, node_executor, function_registry, vad_enabled, session, pc, pending,
                   last, err_run, cascade, turns, vflow, verrors, tr, vad, vlog, heap, hooks,
                   agent>>

\* a call of transition_to from outside process_user_input: the only one is
\* the unit test's, which places the machine in collect_date on a new context
\* before the first input (test_example.py, test_retry_logic)
TransitionTo(state_name) ==
    /\ machine.inputs = 0
    /\ machine' = [transition_to(machine, state_name) EXCEPT !.op = "transition_to"]
    /\ UNCHANGED <<flow, node_executor, function_registry, vad_enabled, session, pc, pending,
                   last, err_run, cascade, turns, vflow, verrors, tr, vad, vlog, heap, hooks,
                   agent>>

\* StateMachine.process_user_input
ProcessUserInput(outcome) ==
    /\ machine.inputs < MaxMachineInputs
    /\ outcome = "raises" => machine.current_state_name \in {"confirmation", "terminal"}
    /\ \E h \in {handle_input(machine.current_state_name, machine.context, outcome)} :
         LET handled == [machine EXCEPT !.context = h.context]
             response ==
                 IF h.raised
                 THEN [next_state |-> "fallback", should_continue |-> TRUE]
                 ELSE h.response
             moved ==
                 IF /\ ~h.raised
                    /\ response.next_state # NoneVal
                    /\ response.next_state # machine.current_state_name
                 THEN transition_to(handled, response.next_state)
                 ELSE handled
         IN  machine' = [moved EXCEPT
                 !.op = "process_user_input",
                 !.outcome = outcome,
                 !.raised = h.raised,
                 !.response = response,
                 !.failures =
                     IF /\ machine.current_state_name \in {"collect_date", "collect_time"}
                        /\ outcome = "missing"
                     THEN @ + 1 ELSE 0,
                 !.inputs = @ + 1]
    /\ UNCHANGED <<flow, node_executor, function_registry, vad_enabled, session, pc, pending,
                   last, err_run, cascade, turns, vflow, verrors, tr, vad, vlog, heap, hooks,
                   agent>>

SpecMachine == InitMachine /\ [][
    \/ ResetToInitialState
    \/ \E state_name \in {"collect_date"} : TransitionTo(state_name)
    \/ \E outcome \in {"found", "missing", "raises"} : ProcessUserInput(outcome)
    ]_vars

\* C31: an input in collect_date or collect_time from which nothing is
\* extracted keeps the machine in that state, and the response names that
\* state, as long as it is the first or second such input in a row; the third
\* in a row gets a response naming fallback and leaves the machine in
\* fallback.  An input a value is extracted from sets the retry count to 0.
C31_RetryThenFallback ==
    [][ (/\ machine'.op = "process_user_input"
         /\ machine.current_state_name \in {"collect_date", "collect_time"})
        => IF machine'.outcome = "found"
           THEN machine'.context.retry_count = 0
           ELSE IF machine'.failures < 3
           THEN /\ machine'.response.next_state = machine.current_state_name
                /\ machine'.current_state_name = machine.current_state_name
           ELSE /\ machine'.failures = 3
                /\ machine'.response.next_state = "fallback"
                /\ machine'.current_state_name = "fallback" ]_vars

C31_Witness ==
    /\ machine.op = "process_user_input"
    /\ machine.failures = 3
    /\ machine.current_state_name = "fallback"
    /\ machine.response.next_state = "fallback"
    /\ "date" \in machine.context.slots

\* C39: the machine is always in one of its six registered states, and when
\* process_user_input returns a response that names a next state, the machine
\* and the context are both in that state - also when the handler raised and
\* the response is the error response naming fallback.
C39_ResponseStateIsCurrent ==
    /\ machine.current_state_name \in {"greeting", "collect_date", "collect_time",
                                       "confirmation", "fallback", "terminal"}
    /\ (/\ machine.op = "process_user_input"
        /\ machine.response.next_state # NoneVal)
       => /\ machine.current_state_name = machine.response.next_state
          /\ machine.context.current_state = machine.response.next_state

====
